---- MODULE Spec2Model ----
(***************************************************************************)
(* QuickCTX: the menu lifecycle engine of src/src/classes/QuickCTX.js.     *)
(*                                                                         *)
(* One QuickCTX instance on one document.  The document holds a few bound  *)
(* elements; the instance holds registered menu configurations.  Every     *)
(* event handler and every timer callback of the class is one action: JS   *)
(* runs a handler to completion, so no other handler interleaves with it.  *)
(* Handlers call each other (_openMenu -> _hideMenu -> _closeSubmenus,     *)
(* ...), so each method is an operator from the instance's state (a record *)
(* of all fields) to the state it leaves; an action applies the handler's  *)
(* operator to the current state and stores the result.                    *)
(***************************************************************************)
EXTENDS Integers, Sequences, FiniteSets, TLC

VARIABLES
    globalFilterStrategy,  \* this.options.globalFilterStrategy
    defaultTrigger,        \* this.options.defaultTrigger
    menuCloseDuration,     \* this.options.animations.menuCloseDuration
    menuConfigurations,    \* this.menuConfigurations: menu id -> configuration
    commands,              \* the MenuCommand objects: declared fields
    registeredActions,     \* this.registeredActions: name -> callback
    functionActionMap,     \* this.functionActionMap: callback -> generated name ("": no entry)
    elemMenu,              \* data-custom-ctxmenu of each element ("none" = no attribute)
    elemType,              \* data-custom-ctxmenu-type of each element ("" = unset)
    nodes,                 \* the menu container nodes created by the instance
    activeMenuElement,     \* this.activeMenuElement (0 = null)
    currentTargetElement,  \* this.currentTargetElement ("none" = null)
    activeSubmenus,        \* this.activeSubmenus: <<[element, parentCommand]>>
    triggerListeners,      \* the document events _boundHandleTrigger listens to
    timers,                \* pending setTimeout callbacks that close over a node
    hoverOpenTimeout,      \* this.hoverOpenTimeout: what its callback closes over
    hoverHideTimeout,      \* this.hoverHideTimeout is pending
    submenuCloseTimeout,   \* this.submenuCloseTimeout is pending
    openTimeout,           \* command.openTimeout: the target its callback closes over
    submenuElement,        \* command.submenuElement (0 = undefined)
    element,               \* command.element of a command with a submenu (it is read of no other): the node holding its <li>
    parentCommand,         \* command.parentCommand ("none" = undefined)
    listeners,             \* close listeners on document/window
    touchState,            \* this.touchState (live = FALSE: null)
    hoverListeners,        \* mouseleave/mouseenter close listeners on elements
    last                   \* what the last handler did: calls, events, error

vars == <<globalFilterStrategy, defaultTrigger, menuCloseDuration, menuConfigurations, commands, registeredActions, functionActionMap, elemMenu, elemType, nodes, activeMenuElement, currentTargetElement, activeSubmenus, triggerListeners, timers, hoverOpenTimeout, hoverHideTimeout, submenuCloseTimeout, openTimeout, submenuElement, element, parentCommand, listeners, touchState, hoverListeners, last>>

----------------------------------------------------------------------------
(* Bounds *)

\* How many nodes the chain from an event's target to the document's root has.
MaxPath == 3

\* How many menu container nodes (root menus and submenus, attached or still
\* referenced by a timer or a command) exist at the same time.
MaxNodes == 2

\* Root nodes that exist at a time (the active one and those still closing)
MaxRoots == 2

\* Entries of activeSubmenus
MaxStack == 1

\* Submenus open in a chain, on the page that nests deepest
MaxDepth == 2

\* Hold timers pending at once
MaxHolds == 2

\* The widest and highest viewport, in px
MaxView == 32

----------------------------------------------------------------------------
(* JavaScript values that the action router distinguishes *)

JsFn(f) == [t |-> "function", v |-> f]
JsStr(x) == [t |-> "string", v |-> x]
JsUndefined == [t |-> "undefined", v |-> ""]
JsNull == [t |-> "null", v |-> ""]
\* {clientX, clientY} of the point p
JsPoint(p) == [t |-> "object", v |-> p]

NoElem == "none"

\* this.touchState when no touch is followed (null)
NullTouch == [live |-> FALSE, targetElement |-> "none", config |-> [commands |-> <<>>], startCoords |-> "", elapsed |-> 0, isHolding |-> FALSE, timeout |-> 0]
NoCmd == "none"
\* an element without the data-custom-ctxmenu attribute
NoMenu == "none"

----------------------------------------------------------------------------
(* The page: its elements, the commands and the callbacks *)

Elems == {"e1", "e2", "e3"}
MenuIds == {"m1", "m2"}

\* The callbacks of the page
Fns == {"fnOk", "fnThrow"}

\* Whether a registered callback throws when it is called.
CallbackThrows(f) == f = "fnThrow"

\* A MenuCommand declared without an order: the constructor's default, 0.
Cmd(type, action, targetTypes, subCommands, disabled, visible) == [type |-> type, action |-> action, targetTypes |-> targetTypes, subCommands |-> subCommands, disabled |-> disabled, visible |-> visible, label |-> "text", order |-> 0]

\* Open | Boom | Ghost | Edit(file) | Off | --(folder) | More > ( SubA(folder) | Off ) | Void > ( Leaf, invisible ) | Only(folder)
\* | Deep > ( More > ( ... ) | Ghost )
InitCommands ==
    [ cOpen  |-> Cmd("action", JsStr("save"), {"*"}, <<>>, FALSE, TRUE),
      cBoom  |-> Cmd("action", JsFn("fnThrow"), {"*"}, <<>>, FALSE, TRUE),
      cGhost |-> Cmd("action", JsStr("ghost"), {"*"}, <<>>, FALSE, TRUE),
      cEdit  |-> Cmd("action", JsFn("fnOk"), {"file"}, <<>>, FALSE, TRUE),
      cOff   |-> Cmd("action", JsFn("fnOk"), {"*"}, <<>>, TRUE, TRUE),
      cSep   |-> Cmd("separator", JsUndefined, {"folder"}, <<>>, FALSE, TRUE),
      cMore  |-> Cmd("sublist", JsUndefined, {"*"}, <<"cSubA", "cOff">>, FALSE, TRUE),
      cSubA  |-> Cmd("action", JsFn("fnOk"), {"folder"}, <<>>, FALSE, TRUE),
      cVoid  |-> Cmd("sublist", JsUndefined, {"*"}, <<"cLeaf">>, FALSE, TRUE),
      cLeaf  |-> Cmd("action", JsFn("fnOk"), {"*"}, <<>>, FALSE, FALSE),
      cOnly  |-> Cmd("action", JsFn("fnOk"), {"folder"}, <<>>, FALSE, TRUE),
      cDeep  |-> Cmd("sublist", JsUndefined, {"*"}, <<"cMore", "cGhost">>, FALSE, TRUE) ]

Cmds == DOMAIN InitCommands

Config(cmdList, trigger, closeTrigger, filter) == [commands |-> cmdList, triggerEvent |-> trigger, closeTriggerEvent |-> closeTrigger, filterStrategy |-> filter]

\* A container node: kind "root" | "sub" ("free" = no such node), attached to
\* document.body or not, its lifecycle class ("none" | "opening" | "open" |
\* "closing"; style.display is "block" exactly under a lifecycle class), the <li>
\* items built into it, the target element its items' closures hold, and whether
\* the hover close listeners are on it.
FreeNode == [kind |-> "free", attached |-> FALSE, cls |-> "none", items |-> <<>>, target |-> NoElem, hov |-> FALSE]

Largest(S) == CHOOSE x \in S : \A y \in S : y <= x

RECURSIVE Depth(_, _)
\* How many submenus deep the tree under a command goes.
Depth(cs, c) ==
    IF cs[c].type # "sublist" \/ cs[c].subCommands = <<>> THEN 0
    ELSE 1 + Largest({Depth(cs, cs[c].subCommands[k]) : k \in DOMAIN cs[c].subCommands})

\* The submenus a page can have open in a chain beyond the first.
Nesting(s) ==
    LET deep == UNION {{Depth(s.commands, s.menuConfigurations[m].commands[k]) :
                            k \in DOMAIN s.menuConfigurations[m].commands} : m \in DOMAIN s.menuConfigurations}
    IN  IF deep = {} \/ Largest(deep \cup {1}) = 1 THEN 0
        ELSE IF Largest(deep) > MaxDepth THEN MaxDepth - 1 ELSE Largest(deep) - 1

\* The container nodes of a page: MaxNodes, and one more for each further
\* level of its deepest chain of submenus.
NodePool(s) == 1..(MaxNodes + Nesting(s))

NodeIds == 1..(MaxNodes + MaxDepth - 1)

\* command.element refers to an <li> of a tree that was discarded
Stale == MaxNodes + MaxDepth

----------------------------------------------------------------------------
(* The instance's state as one record, and the methods as operators on it *)

State ==
    [ globalFilterStrategy |-> globalFilterStrategy, defaultTrigger |-> defaultTrigger,
      menuCloseDuration |-> menuCloseDuration, triggerListeners |-> triggerListeners,
      hoverOpenTimeout |-> hoverOpenTimeout, hoverHideTimeout |-> hoverHideTimeout,
      menuConfigurations |-> menuConfigurations, commands |-> commands,
      registeredActions |-> registeredActions, functionActionMap |-> functionActionMap,
      elemMenu |-> elemMenu, elemType |-> elemType,
      nodes |-> nodes, activeMenuElement |-> activeMenuElement,
      currentTargetElement |-> currentTargetElement, activeSubmenus |-> activeSubmenus,
      timers |-> timers, submenuCloseTimeout |-> submenuCloseTimeout,
      openTimeout |-> openTimeout, submenuElement |-> submenuElement, element |-> element,
      touchState |-> touchState,
      parentCommand |-> parentCommand, listeners |-> listeners, hoverListeners |-> hoverListeners,
      calls |-> <<>>, events |-> <<>>, thrown |-> "none" ]

Timer(kind, n) == [kind |-> kind, node |-> n]

\* The timer of a hold, known by the handle setTimeout returned.
HoldTimer(id) == [kind |-> "hold", node |-> 0, id |-> id]

StackNodes(s) == {s.activeSubmenus[i].element : i \in DOMAIN s.activeSubmenus}

\* The closure close() of _closeSubmenus: display none, lifecycle classes
\* removed, innerHTML emptied, node removed from document.body.
CloseSubmenuNow(s, n) ==
    [s EXCEPT !.nodes[n] = [@ EXCEPT !.cls = "none", !.items = <<>>, !.attached = FALSE],
              !.element = [c \in Cmds |-> IF @[c] = n THEN Stale ELSE @[c]]]

RECURSIVE CloseAllNow(_, _)
CloseAllNow(s, ns) ==
    IF ns = {} THEN s
    ELSE LET n == CHOOSE x \in ns : TRUE IN CloseAllNow(CloseSubmenuNow(s, n), ns \ {n})

\* _closeSubmenus(fromLevel = 0, instant): every call site passes fromLevel 0.
CloseSubmenus(s, instant) ==
    LET ns == StackNodes(s)
        popped == [s EXCEPT !.activeSubmenus = <<>>]
    IN  IF instant THEN CloseAllNow(popped, ns)
        ELSE [popped EXCEPT !.nodes = [n \in NodeIds |-> IF n \in ns THEN [@[n] EXCEPT !.cls = "closing"] ELSE @[n]],
                            !.timers = @ \cup {Timer("subclose", n) : n \in ns}]

\* _hideMenu's closure hide() as if it reset only activeMenuElement.
HideKeepsTarget(s, menuToHide) ==
    LET removed == [s EXCEPT !.nodes[menuToHide].attached = FALSE]
    IN  IF s.activeMenuElement = menuToHide
        THEN [removed EXCEPT !.activeMenuElement = 0,
                             !.listeners = @ \ {"click", "keydown", "scroll"},
                             !.hoverListeners = {h \in @ : h[1] # s.currentTargetElement},
                             !.nodes[menuToHide].hov = FALSE]
        ELSE removed

\* The closure hide() of _hideMenu.
Hide(s, menuToHide) ==
    LET removed == [s EXCEPT !.nodes[menuToHide].attached = FALSE]
    IN  IF s.activeMenuElement = menuToHide
        THEN [removed EXCEPT !.activeMenuElement = 0,
                             !.currentTargetElement = NoElem,
                             !.listeners = @ \ {"click", "keydown", "scroll"},
                             !.hoverListeners = {h \in @ : h[1] # s.currentTargetElement},
                             !.nodes[menuToHide].hov = FALSE]
        ELSE removed

\* A mutant of HideMenu: the menu is left as it is (no closing class, no hide).
HideMenuKeepsOpen(s, menuToHide, instant) ==
    IF menuToHide = 0 THEN s ELSE CloseSubmenus(s, instant)

\* _hideMenu(menuToHide, instant)
HideMenu(s, menuToHide, instant) ==
    IF menuToHide = 0 THEN s
    ELSE LET s1 == CloseSubmenus(s, instant)
         IN  IF instant \/ s1.menuCloseDuration = 0
             THEN Hide(s1, menuToHide)
             ELSE [s1 EXCEPT !.nodes[menuToHide].cls = "closing",
                             !.timers = @ \cup {Timer("hide", menuToHide)}]

----------------------------------------------------------------------------
(* Build *)

\* getAttribute("data-custom-ctxmenu-type") || "default"
ResolveType(s, el) == IF s.elemType[el] = "" THEN "default" ELSE s.elemType[el]

TypeMatch(c, targetType) == "*" \in c.targetTypes \/ targetType \in c.targetTypes

\* config.filterStrategy || this.options.globalFilterStrategy ("" = absent)
EffectiveFilter(s, cfgFilter) == IF cfgFilter # "" THEN cfgFilter ELSE s.globalFilterStrategy

HasSubmenu(c) == c.type = "sublist" /\ Len(c.subCommands) > 0

\* A mutant of RenderCommand: the forced disabling replaces the command's own flag.
RenderCommandDropsOwnFlag(s, id, filter, targetType) ==
    LET c == s.commands[id]
        typeMatch == TypeMatch(c, targetType)
    IN  IF ~c.visible THEN <<>>
        ELSE IF ~typeMatch /\ filter = "hide" THEN <<>>
        ELSE <<[cmd |-> id, disabled |-> ~typeMatch, arrow |-> HasSubmenu(c)]>>

\* A mutant of RenderCommand: the visible flag is not looked at.
RenderCommandIgnoresVisible(s, id, filter, targetType) ==
    LET c == s.commands[id]
        typeMatch == TypeMatch(c, targetType)
    IN  IF ~typeMatch /\ filter = "hide" THEN <<>>
        ELSE <<[cmd |-> id, disabled |-> c.disabled \/ ~typeMatch, arrow |-> HasSubmenu(c)]>>

\* One round of the forEach of _buildAndShowMenu: the <li> appended for a
\* command (isDisabled as its listeners close over it), or nothing.
RenderCommand(s, id, filter, targetType) ==
    LET c == s.commands[id]
        typeMatch == TypeMatch(c, targetType)
    IN  IF ~c.visible THEN <<>>
        ELSE IF ~typeMatch /\ filter = "hide" THEN <<>>
        ELSE <<[cmd |-> id, disabled |-> c.disabled \/ ~typeMatch, arrow |-> HasSubmenu(c)]>>

RECURSIVE BuildItems(_, _, _, _)
BuildItems(s, list, filter, targetType) ==
    IF list = <<>> THEN <<>>
    ELSE RenderCommand(s, Head(list), filter, targetType) \o BuildItems(s, Tail(list), filter, targetType)

ItemCmds(items) == {items[i].cmd : i \in DOMAIN items}

\* _showMenuDOM: display block, closing removed, opening added; after the
\* position is set and a layout read, opening is replaced by open, all within
\* the one call.
ShowMenuDOM(s, n) == [s EXCEPT !.nodes[n].cls = "open"]

\* classList.remove("has-submenu-arrow") on parentCommand.element
RemoveArrow(s, pc) ==
    LET n == s.element[pc]
    IN  IF n = 0 THEN [s EXCEPT !.thrown = "TypeError"]
        ELSE IF n = Stale THEN s
        ELSE [s EXCEPT !.nodes[n].items = [i \in DOMAIN @ |-> IF @[i].cmd = pc THEN [@[i] EXCEPT !.arrow = FALSE] ELSE @[i]]]

\* A mutant of BuildAndShowMenu: a menu with no item is shown like any other.
BuildAndShowMenuShowsEmpty(s, cmdList, cfgFilter, targetElement, targetType, parentMenuElement, pCommand) ==
    LET menuToBuild == IF parentMenuElement # 0 THEN parentMenuElement ELSE s.activeMenuElement
        pushed == IF parentMenuElement # 0
                  THEN [s EXCEPT !.activeSubmenus = Append(@, [element |-> menuToBuild, parentCommand |-> pCommand])]
                  ELSE s
    IN  IF parentMenuElement # 0 /\ s.activeMenuElement = 0
        THEN [pushed EXCEPT !.thrown = "TypeError"]
        ELSE
        LET items == BuildItems(pushed, cmdList, EffectiveFilter(pushed, cfgFilter), targetType)
            listed == {cmdList[i] : i \in DOMAIN cmdList}
            rendered == {c \in ItemCmds(items) : pushed.commands[c].type # "separator"}
            built == [pushed EXCEPT
                        !.nodes[menuToBuild].items = items,
                        !.nodes[menuToBuild].target = targetElement,
                        !.parentCommand = [c \in Cmds |-> IF pCommand # NoCmd /\ c \in listed THEN pCommand ELSE @[c]],
                        !.element = [c \in Cmds |-> IF c \in rendered /\ HasSubmenu(pushed.commands[c]) THEN menuToBuild
                                                    ELSE IF @[c] = menuToBuild THEN Stale ELSE @[c]]]
            shown == ShowMenuDOM(built, menuToBuild)
        IN  IF parentMenuElement = 0
            THEN [shown EXCEPT !.listeners = @ \cup {"click", "keydown"}]
            ELSE shown

\* _buildAndShowMenu(config, targetElement, targetType, x, y, parentMenuElement, parentCommand)
BuildAndShowMenu(s, cmdList, cfgFilter, targetElement, targetType, parentMenuElement, pCommand) ==
    LET menuToBuild == IF parentMenuElement # 0 THEN parentMenuElement ELSE s.activeMenuElement
        pushed == IF parentMenuElement # 0
                  THEN [s EXCEPT !.activeSubmenus = Append(@, [element |-> menuToBuild, parentCommand |-> pCommand])]
                  ELSE s
    IN  IF parentMenuElement # 0 /\ s.activeMenuElement = 0
        THEN [pushed EXCEPT !.thrown = "TypeError"]  \* this.activeMenuElement.className
        ELSE
        LET items == BuildItems(pushed, cmdList, EffectiveFilter(pushed, cfgFilter), targetType)
            listed == {cmdList[i] : i \in DOMAIN cmdList}
            rendered == {c \in ItemCmds(items) : pushed.commands[c].type # "separator"}
            built == [pushed EXCEPT
                        !.nodes[menuToBuild].items = items,
                        !.nodes[menuToBuild].target = targetElement,
                        !.parentCommand = [c \in Cmds |-> IF pCommand # NoCmd /\ c \in listed THEN pCommand ELSE @[c]],
                        !.element = [c \in Cmds |-> IF c \in rendered /\ HasSubmenu(pushed.commands[c]) THEN menuToBuild
                                                    ELSE IF @[c] = menuToBuild THEN Stale ELSE @[c]]]
        IN  IF Len(items) > 0
            THEN LET shown == ShowMenuDOM(built, menuToBuild)
                 IN  IF parentMenuElement = 0
                     THEN [shown EXCEPT !.listeners = @ \cup {"click", "keydown"}]
                     ELSE shown
            ELSE LET hidden == HideMenu(built, built.activeMenuElement, TRUE)
                 IN  IF parentMenuElement = 0
                     THEN HideMenu(hidden, hidden.activeMenuElement, TRUE)
                     ELSE RemoveArrow(hidden, pCommand)

----------------------------------------------------------------------------
(* Open *)

\* this.options.defaultCloseTrigger
DefaultCloseTrigger == "auto"

\* this.options.animations.menuCloseDuration as constructed
MenuCloseDuration == 200

FreeIds(s) == {n \in NodePool(s) : s.nodes[n].kind = "free"}

\* Whether there is room for one more root node.
CanCreateRoot(s) == FreeIds(s) # {} /\ Cardinality({n \in NodeIds : s.nodes[n].kind = "root"}) < MaxRoots

\* createElement + document.body.appendChild: the node gets the least unused
\* identity.
NewNode(s) == CHOOSE n \in FreeIds(s) : \A m \in FreeIds(s) : n <= m

\* A mutant of OpenMenu: the menu that is active is not closed first.
OpenMenuKeepsPrevious(s, config, targetElement) ==
    LET n == NewNode(s)
        created == [s EXCEPT !.currentTargetElement = targetElement,
                             !.nodes[n] = [FreeNode EXCEPT !.kind = "root", !.attached = TRUE],
                             !.activeMenuElement = n]
        built == BuildAndShowMenu(created, config.commands, config.filterStrategy, targetElement, ResolveType(s, targetElement), 0, NoCmd)
        trigger == IF config.triggerEvent # "" THEN config.triggerEvent ELSE s.defaultTrigger
        configured == IF config.closeTriggerEvent # "" THEN config.closeTriggerEvent ELSE DefaultCloseTrigger
        closeTrigger == IF configured = "auto"
                        THEN (IF trigger = "hover" THEN "mouseout" ELSE "click")
                        ELSE configured
    IN  IF closeTrigger = "mouseout"
        THEN IF built.activeMenuElement = 0
             THEN [built EXCEPT !.hoverListeners = @ \cup {<<targetElement, "mouseleave">>}, !.thrown = "TypeError"]
             ELSE [built EXCEPT !.hoverListeners = @ \cup {<<targetElement, "mouseleave">>, <<targetElement, "mouseenter">>},
                                !.nodes[built.activeMenuElement].hov = TRUE,
                                !.listeners = @ \cup {"keydown", "scroll"}]
        ELSE [built EXCEPT !.timers = @ \cup {Timer("addclick", 0)},
                           !.listeners = @ \cup {"keydown", "scroll"}]

\* _openMenu(config, targetElement, event); isTouchDevice is false
OpenMenu(s, config, targetElement) ==
    LET s1 == IF s.activeMenuElement # 0 /\ s.nodes[s.activeMenuElement].cls # "closing"
              THEN HideMenu(s, s.activeMenuElement, FALSE)
              ELSE s
        n == NewNode(s1)
        created == [s1 EXCEPT !.currentTargetElement = targetElement,
                              !.nodes[n] = [FreeNode EXCEPT !.kind = "root", !.attached = TRUE],
                              !.activeMenuElement = n]
        built == BuildAndShowMenu(created, config.commands, config.filterStrategy, targetElement, ResolveType(s, targetElement), 0, NoCmd)
        trigger == IF config.triggerEvent # "" THEN config.triggerEvent ELSE s.defaultTrigger
        configured == IF config.closeTriggerEvent # "" THEN config.closeTriggerEvent ELSE DefaultCloseTrigger
        closeTrigger == IF configured = "auto"
                        THEN (IF trigger = "hover" THEN "mouseout" ELSE "click")
                        ELSE configured
    IN  IF closeTrigger = "mouseout"
        THEN \* _setupHoverListeners(targetElement, this.activeMenuElement)
             IF built.activeMenuElement = 0
             THEN [built EXCEPT !.hoverListeners = @ \cup {<<targetElement, "mouseleave">>}, !.thrown = "TypeError"]
             ELSE [built EXCEPT !.hoverListeners = @ \cup {<<targetElement, "mouseleave">>, <<targetElement, "mouseenter">>},
                                !.nodes[built.activeMenuElement].hov = TRUE,
                                !.listeners = @ \cup {"keydown", "scroll"}]
        ELSE [built EXCEPT !.timers = @ \cup {Timer("addclick", 0)},
                           !.listeners = @ \cup {"keydown", "scroll"}]

----------------------------------------------------------------------------
(* Submenus *)

RECURSIVE Ancestors(_, _)
\* The walk of _closeSiblingSubmenus along command.parentCommand.
Ancestors(s, c) == IF c = NoCmd THEN {} ELSE {c} \cup Ancestors(s, s.parentCommand[c])

\* _closeSingleSubmenu(submenuInfo), instant = false
CloseSingleSubmenu(s, n) ==
    [s EXCEPT !.nodes[n].cls = "closing", !.timers = @ \cup {Timer("subsingle", n)}]

RECURSIVE CloseSingles(_, _)
CloseSingles(s, ns) ==
    IF ns = {} THEN s
    ELSE LET n == CHOOSE x \in ns : TRUE IN CloseSingles(CloseSingleSubmenu(s, n), ns \ {n})

\* A mutant of CloseSiblingSubmenus: the parent back-references are not walked.
CloseSiblingSubmenusOfAll(s, command) ==
    LET Keep(info) == info.parentCommand = command
        closed == {s.activeSubmenus[i].element : i \in {j \in DOMAIN s.activeSubmenus : ~Keep(s.activeSubmenus[j])}}
    IN  [CloseSingles(s, closed) EXCEPT !.activeSubmenus = SelectSeq(@, Keep)]

\* _closeSiblingSubmenus(command)
CloseSiblingSubmenus(s, command) ==
    LET ancestors == Ancestors(s, command)
        Keep(info) == info.parentCommand \in ancestors
        closed == {s.activeSubmenus[i].element : i \in {j \in DOMAIN s.activeSubmenus : ~Keep(s.activeSubmenus[j])}}
    IN  [CloseSingles(s, closed) EXCEPT !.activeSubmenus = SelectSeq(@, Keep)]

\* Whether _openSubmenu has to create a node for the command.
NeedsNewSubmenuNode(s, command) ==
    LET el == s.submenuElement[command]
    IN  IF el = 0 THEN TRUE
        ELSE s.nodes[el].cls # "open" /\ ~s.nodes[el].attached

\* _openSubmenu(command, parentLi, targetElement)
OpenSubmenu(s, command, targetElement) ==
    LET el == s.submenuElement[command]
    IN  IF el # 0 /\ s.nodes[el].cls = "open" THEN s
        ELSE LET n == IF el = 0 \/ ~s.nodes[el].attached THEN NewNode(s) ELSE el
                 created == IF n = el THEN s
                            ELSE [s EXCEPT !.nodes[n] = [FreeNode EXCEPT !.kind = "sub", !.attached = TRUE],
                                           !.submenuElement[command] = n]
                 targetType == IF s.elemType[targetElement] = "" THEN "default" ELSE s.elemType[targetElement]
             IN  BuildAndShowMenu(created, s.commands[command].subCommands, "", targetElement, targetType, n, command)

\* The mouseenter listener of an <li> (_createMenuItemDOM)
ItemMouseEnter(s, n, i) ==
    LET item == s.nodes[n].items[i]
        c == s.commands[item.cmd]
        cancelled == [s EXCEPT !.submenuCloseTimeout = FALSE]
    IN  IF c.type = "separator" THEN CloseSiblingSubmenus(cancelled, item.cmd)
        ELSE IF item.disabled THEN cancelled
        ELSE LET closed == CloseSiblingSubmenus(cancelled, item.cmd)
             IN  IF HasSubmenu(c)
                 THEN [closed EXCEPT !.openTimeout[item.cmd] = s.nodes[n].target]  \* _scheduleSubmenuOpen
                 ELSE closed

----------------------------------------------------------------------------
(* Action router *)

ResolveAction(s, action) == IF action.t = "string" THEN s.registeredActions[action.v] ELSE action

\* What dispatchEvent(new CustomEvent("QuickCTXActionSelected", ...)) carries;
\* "" stands for an undefined dataset entry.
Notification(s, id) ==
    [ on |-> s.currentTargetElement, menuId |-> s.elemMenu[s.currentTargetElement],
      commandId |-> id, targetElement |-> s.currentTargetElement,
      targetType |-> s.elemType[s.currentTargetElement] ]

\* A mutant of ItemClick: isDisabled is not looked at.
ItemClickIgnoresDisabled(s, n, i) ==
    LET item == s.nodes[n].items[i]
        c == s.commands[item.cmd]
        action == ResolveAction(s, c.action)
        called == IF action.t = "function"
                  THEN [s EXCEPT !.calls = Append(@, [fn |-> action.v, target |-> s.currentTargetElement, command |-> item.cmd])]
                  ELSE s
    IN  IF c.type # "action" THEN s
        ELSE IF action.t = "function" /\ CallbackThrows(action.v)
        THEN [called EXCEPT !.thrown = "ActionExecutionError"]
        ELSE LET notified == IF called.currentTargetElement # NoElem
                             THEN [called EXCEPT !.events = Append(@, Notification(called, item.cmd))]
                             ELSE called
             IN  HideMenu(notified, notified.activeMenuElement, FALSE)

\* The click listener of an action <li> (_createMenuItemDOM)
ItemClick(s, n, i) ==
    LET item == s.nodes[n].items[i]
        c == s.commands[item.cmd]
        action == ResolveAction(s, c.action)
    IN  IF c.type # "action" THEN s
        ELSE IF item.disabled THEN s
        ELSE IF action = JsStr("undefined") THEN [s EXCEPT !.thrown = "ActionNotFound"]
        ELSE LET called == IF action.t = "function"
                           THEN [s EXCEPT !.calls = Append(@, [fn |-> action.v, target |-> s.currentTargetElement, command |-> item.cmd])]
                           ELSE s
             IN  IF action.t = "function" /\ CallbackThrows(action.v)
                 THEN [called EXCEPT !.thrown = "ActionExecutionError"]
                 ELSE LET notified == IF called.currentTargetElement # NoElem
                                      THEN [called EXCEPT !.events = Append(@, Notification(called, item.cmd))]
                                      ELSE called
                      IN  HideMenu(notified, notified.activeMenuElement, FALSE)

\* _handleOutsideClick as if only the root node counted as inside.
HandleOutsideClickRootOnly(s, inside) ==
    IF s.activeMenuElement = 0 \/ s.nodes[s.activeMenuElement].cls = "opening" THEN s
    ELSE IF inside = s.activeMenuElement THEN s
    ELSE HideMenu(s, s.activeMenuElement, FALSE)

\* _handleOutsideClick(event), the event's target being inside node `inside`
\* (0: inside no menu node)
HandleOutsideClick(s, inside) ==
    IF s.activeMenuElement = 0 \/ s.nodes[s.activeMenuElement].cls = "opening" THEN s
    ELSE IF inside = s.activeMenuElement THEN s
    ELSE IF inside \in StackNodes(s) THEN s
    ELSE HideMenu(s, s.activeMenuElement, FALSE)

----------------------------------------------------------------------------
(* Binding menus to elements *)

\* What assigning a value to a dataset entry stores: its string conversion.
DatasetString(v) == IF v.t = "string" THEN v.v ELSE v.t

\* bindMenuToElements as if every bind set the type it is given.
BindMenuToElementsOverwrites(s, el, menuId, type) ==
    IF el \notin Elems THEN s
    ELSE [s EXCEPT !.elemMenu[el] = DatasetString(menuId), !.elemType[el] = DatasetString(type)]

\* bindMenuToElements, for each element of the list: non-elements are skipped,
\* the menu id is stamped, the type only where the stamp is absent or empty.
BindMenuToElements(s, el, menuId, type) ==
    IF el \notin Elems THEN s
    ELSE [s EXCEPT !.elemMenu[el] = DatasetString(menuId),
                   !.elemType[el] = IF @ # "" THEN @ ELSE DatasetString(type)]

\* unbindMenuFromElements, for each element of the list
UnbindMenuFromElements(s, el) ==
    IF el \notin Elems THEN s
    ELSE [s EXCEPT !.elemMenu[el] = NoMenu, !.elemType[el] = ""]

----------------------------------------------------------------------------
(* Trigger dispatcher *)

\* _setupEventListeners: the events _boundHandleTrigger is attached to afterwards
SetupEventListeners(s) ==
    LET supportedTriggers == {"contextmenu", "click", "dblclick", "mouseover", "mouseout"}
        OfConfig(m) == LET e == s.menuConfigurations[m].triggerEvent
                       IN  IF e = "" THEN {} ELSE IF e = "hover" THEN {"mouseover", "mouseout"} ELSE {e}
        activeTriggers == {s.defaultTrigger} \cup UNION {OfConfig(m) : m \in DOMAIN s.menuConfigurations}
    IN  [s EXCEPT !.triggerListeners = activeTriggers \cap supportedTriggers]

----------------------------------------------------------------------------
(* Menu creation and configuration *)

\* Object.assign(command, updates), and the spread {...command, ...updates}
Assign(command, updates) == [f \in DOMAIN command |-> IF f \in DOMAIN updates THEN updates[f] ELSE command[f]]

\* obj[k] = v on an object used as a map
Put(f, k, v) == [x \in DOMAIN f \cup {k} |-> IF x = k THEN v ELSE f[x]]

\* registerAction: anything but a function or null is refused.
RegisterAction(s, actionName, callback) ==
    IF callback.t \notin {"function", "null"} THEN s
    ELSE [s EXCEPT !.registeredActions = Put(@, actionName, callback)]

\* Array.prototype.sort((a, b) => a.order - b.order), which is stable: each
\* command goes behind the commands of the same or a lower order before it.
RECURSIVE SortByOrder(_, _)
SortByOrder(cs, list) ==
    IF list = <<>> THEN <<>>
    ELSE LET c == list[Len(list)]
             sorted == SortByOrder(cs, SubSeq(list, 1, Len(list) - 1))
             k == Cardinality({i \in DOMAIN sorted : cs[sorted[i]].order <= cs[c].order})
         IN  SubSeq(sorted, 1, k) \o <<c>> \o SubSeq(sorted, k + 1, Len(sorted))

\* addMenuConfiguration as if an option that is absent kept the value stored
\* by an earlier registration of the id.
AddMenuConfigurationMerges(s, id, configOptions) ==
    LET Earlier(field, default) == IF id \in DOMAIN s.menuConfigurations THEN s.menuConfigurations[id][field] ELSE default
        stored == Config(SortByOrder(s.commands, configOptions.commands),
                         IF configOptions.triggerEvent # "" THEN configOptions.triggerEvent ELSE Earlier("triggerEvent", s.defaultTrigger),
                         IF configOptions.closeTriggerEvent # "" THEN configOptions.closeTriggerEvent ELSE Earlier("closeTriggerEvent", DefaultCloseTrigger),
                         IF configOptions.filterStrategy # "" THEN configOptions.filterStrategy ELSE Earlier("filterStrategy", s.globalFilterStrategy))
    IN  SetupEventListeners([s EXCEPT !.menuConfigurations = Put(@, id, stored)])

\* addMenuConfiguration: the root list sorted by order; the options that are
\* absent ("") take the defaults of the moment; the configuration stored under
\* the id, in place of an earlier one; the trigger listeners set up again.
AddMenuConfiguration(s, id, configOptions) ==
    LET stored == Config(SortByOrder(s.commands, configOptions.commands),
                         IF configOptions.triggerEvent # "" THEN configOptions.triggerEvent ELSE s.defaultTrigger,
                         IF configOptions.closeTriggerEvent # "" THEN configOptions.closeTriggerEvent ELSE DefaultCloseTrigger,
                         IF configOptions.filterStrategy # "" THEN configOptions.filterStrategy ELSE s.globalFilterStrategy)
    IN  SetupEventListeners([s EXCEPT !.menuConfigurations = Put(@, id, stored)])

\* The two copies of the MenuCommand class in the repository.
Copies == {"classes/MenuCommand.js", "unnamed/part_001"}

\* Whether the constructor of the copy throws for the declaration: the one
\* tests the parameter `type`; the other tests this.type, which is still
\* undefined when it is tested, against "separator".
LabelMissing(copy, declaration) ==
    IF copy = "classes/MenuCommand.js"
    THEN declaration.type # "separator" /\ declaration.label = ""
    ELSE LET thisType == "undefined" IN thisType = "separator" /\ declaration.label = ""

\* new MenuCommand(declaration) returns: the label test passes, and so does
\* the construction of each of the subCommands.
RECURSIVE Constructs(_, _, _)
Constructs(copy, declared, c) ==
    /\ ~LabelMissing(copy, declared[c])
    /\ \A k \in DOMAIN declared[c].subCommands : Constructs(copy, declared, declared[c].subCommands[k])

\* addMenuConfiguration with declarations that are not MenuCommand instances
\* yet: they are constructed first, and an error of a constructor leaves the
\* method before anything is stored.
AddDeclaredConfiguration(s, copy, declared, id, configOptions) ==
    IF \A k \in DOMAIN configOptions.commands : Constructs(copy, declared, configOptions.commands[k])
    THEN AddMenuConfiguration(s, id, configOptions)
    ELSE [s EXCEPT !.thrown = "Error"]

\* updateMenuConfiguration as if it stored the options under an unknown id too.
UpdateMenuConfigurationCreates(s, menuId, newOptions) ==
    IF menuId \notin DOMAIN s.menuConfigurations
    THEN SetupEventListeners([s EXCEPT !.menuConfigurations = Put(@, menuId, Assign(Config(<<>>, "", "", ""), newOptions))])
    ELSE SetupEventListeners([s EXCEPT !.menuConfigurations[menuId] = Assign(@, newOptions)])

\* updateMenuConfiguration: the options given replace those stored; the
\* trigger listeners are set up again.  An unknown id changes nothing.
UpdateMenuConfiguration(s, menuId, newOptions) ==
    IF menuId \notin DOMAIN s.menuConfigurations THEN s
    ELSE SetupEventListeners([s EXCEPT !.menuConfigurations[menuId] = Assign(@, newOptions)])

\* updateOptions: the options given replace the current ones; the trigger
\* listeners are set up again.
UpdateOptions(s, newOptions) ==
    SetupEventListeners([s EXCEPT !.defaultTrigger = IF "defaultTrigger" \in DOMAIN newOptions THEN newOptions.defaultTrigger ELSE @,
                                  !.globalFilterStrategy = IF "globalFilterStrategy" \in DOMAIN newOptions THEN newOptions.globalFilterStrategy ELSE @])

\* The names createAndBindMenu can generate ("quickctx-action-" and a UUID).
GenNames == {"quickctx-action-a", "quickctx-action-b", "quickctx-action-c"}

\* crypto.randomUUID(): a name that no action is registered under.
FreshName(s) == CHOOSE n \in GenNames : n \notin DOMAIN s.registeredActions

\* processStructure, for the action of one item, as if the callback's name
\* were not remembered in functionActionMap.
NameActionForgets(s, c) ==
    IF s.commands[c].action.t # "function" THEN s
    ELSE LET actionFunc == s.commands[c].action.v
             actionName == FreshName(s)
         IN  [RegisterAction(s, actionName, JsFn(actionFunc)) EXCEPT !.commands[c].action = JsStr(actionName)]

\* processStructure, for the action of one item: a callback gets the name
\* functionActionMap has for it, or a generated one, then registered and remembered.
NameAction(s, c) ==
    IF s.commands[c].action.t # "function" THEN s
    ELSE LET actionFunc == s.commands[c].action.v
             known == s.functionActionMap[actionFunc]
             actionName == IF known # "" THEN known ELSE FreshName(s)
             s1 == IF known # "" THEN s
                   ELSE [RegisterAction(s, actionName, JsFn(actionFunc)) EXCEPT !.functionActionMap[actionFunc] = actionName]
         IN  [s1 EXCEPT !.commands[c].action = JsStr(actionName)]

\* processStructure: each item is cloned from its declaration; an item with
\* children becomes a sublist and its children are processed, then its own
\* action is named, absent target types become [defaultType], and the next
\* item follows.  No list is sorted here.
RECURSIVE ProcessStructure(_, _, _, _)
ProcessStructure(s, declared, struct, defaultType) ==
    IF struct = <<>> THEN s
    ELSE LET c == Head(struct)
             cloned == [s EXCEPT !.commands[c] = declared[c]]
             s1 == IF declared[c].subCommands # <<>>
                   THEN ProcessStructure([cloned EXCEPT !.commands[c].type = "sublist"], declared, declared[c].subCommands, defaultType)
                   ELSE cloned
             s2 == NameAction(s1, c)
             s3 == IF s2.commands[c].targetTypes = {} THEN [s2 EXCEPT !.commands[c].targetTypes = {defaultType}] ELSE s2
         IN  ProcessStructure(s3, declared, Tail(struct), defaultType)

\* createAndBindMenu({menuId, defaultTargetType, selector, structure}) with
\* no option given: the structure processed, the configuration added, and the
\* menu bound to the selected element.
CreateAndBindMenu(s, declared, menuId, defaultTargetType, selector, structure) ==
    LET processed == ProcessStructure(s, declared, structure, defaultTargetType)
        added == AddMenuConfiguration(processed, menuId, Config(structure, "", "", ""))
    IN  IF selector # NoElem /\ defaultTargetType # ""
        THEN BindMenuToElements(added, selector, JsStr(menuId), JsStr(defaultTargetType))
        ELSE added

\* The order findAndMerge visits the commands in: a command, the commands
\* below it, then the next command of the list.
RECURSIVE Walk(_, _)
Walk(cs, list) ==
    IF list = <<>> THEN <<>>
    ELSE <<Head(list)>> \o Walk(cs, cs[Head(list)].subCommands) \o Walk(cs, Tail(list))

\* What updateMenuCommand looks for: the action given, a callback replaced by
\* functionActionMap.get(callback), which is undefined for a callback not in the map.
SoughtAction(s, action) ==
    IF action.t = "function"
    THEN IF s.functionActionMap[action.v] # "" THEN JsStr(s.functionActionMap[action.v]) ELSE JsUndefined
    ELSE action

\* updateMenuCommand: the state it leaves and the value it returns.
UpdateMenuCommand(s, menuId, action, updates) ==
    IF menuId \notin DOMAIN s.menuConfigurations THEN [state |-> s, ret |-> "false"]
    ELSE LET visited == Walk(s.commands, s.menuConfigurations[menuId].commands)
             hits == {i \in DOMAIN visited : s.commands[visited[i]].action = SoughtAction(s, action)}
         IN  IF hits = {} THEN [state |-> s, ret |-> "false"]
             ELSE LET c == visited[CHOOSE i \in hits : \A j \in hits : i <= j]
                  IN  [state |-> [s EXCEPT !.commands[c] = Assign(@, updates)], ret |-> "true"]

\* this.options.animations.hoverMenuOpenDelay
HoverMenuOpenDelay == 450

NoHoverOpen == [pending |-> FALSE, config |-> "", target |-> NoElem]

\* _handleTriggerEvent as if an element whose menu id has no configuration
\* were passed over like an element that is not bound.
TriggerDecisionSkipsUnknown(s, ev, el) ==
    IF ev = "mouseout" THEN "cancel"
    ELSE IF el \notin Elems \/ s.elemMenu[el] = NoMenu THEN "ignore"
    ELSE IF s.elemMenu[el] = "" THEN "throw"
    ELSE IF s.elemMenu[el] \notin DOMAIN s.menuConfigurations THEN "ignore"
    ELSE LET config == s.menuConfigurations[s.elemMenu[el]]
             eventTriggerType == IF ev = "mouseover" THEN "hover" ELSE ev
             expectedTrigger == IF config.triggerEvent # "" THEN config.triggerEvent ELSE s.defaultTrigger
         IN  IF eventTriggerType # expectedTrigger THEN "ignore"
             ELSE IF expectedTrigger = "hover" /\ s.currentTargetElement = el THEN "ignore"
             ELSE IF eventTriggerType = "hover" /\ HoverMenuOpenDelay > 0 THEN "schedule"
             ELSE "open"

\* What _handleTriggerEvent does with an event of type ev whose target is el
\* ("page": an element with no bound ancestor): the branch it ends in.
TriggerDecision(s, ev, el) ==
    IF ev = "mouseout" THEN "cancel"
    ELSE IF el \notin Elems \/ s.elemMenu[el] = NoMenu THEN "ignore"
    ELSE IF s.elemMenu[el] = "" THEN "throw"
    ELSE IF s.elemMenu[el] \notin DOMAIN s.menuConfigurations THEN "throw"
    ELSE LET config == s.menuConfigurations[s.elemMenu[el]]
             eventTriggerType == IF ev = "mouseover" THEN "hover" ELSE ev
             expectedTrigger == IF config.triggerEvent # "" THEN config.triggerEvent ELSE s.defaultTrigger
         IN  IF eventTriggerType # expectedTrigger THEN "ignore"
             ELSE IF expectedTrigger = "hover" /\ s.currentTargetElement = el THEN "ignore"
             ELSE IF eventTriggerType = "hover" /\ HoverMenuOpenDelay > 0 THEN "schedule"
             ELSE "open"

\* _handleTriggerEvent(event); isTouchDevice is false
HandleTriggerEvent(s, ev, el) ==
    LET d == TriggerDecision(s, ev, el)
    IN  CASE d = "cancel" -> [s EXCEPT !.hoverOpenTimeout = NoHoverOpen]
          [] d = "ignore" -> s
          [] d = "throw" -> [s EXCEPT !.thrown = "RoutingError"]
          [] d = "schedule" -> [s EXCEPT !.hoverOpenTimeout = [pending |-> TRUE, config |-> s.menuConfigurations[s.elemMenu[el]], target |-> el]]
          [] d = "open" -> OpenMenu(s, s.menuConfigurations[s.elemMenu[el]], el)

----------------------------------------------------------------------------
(* Nested targets *)

\* A node of the document that is none of the elements and has no
\* data-custom-ctxmenu attribute
PlainNode == "div"

\* event.target as the chain of nodes from the target up to the document's
\* root: plain nodes and elements, no element twice.
Paths ==
    {p \in UNION {[1..n -> Elems \cup {PlainNode}] : n \in 1..MaxPath} :
        \A i, j \in DOMAIN p : (i # j /\ p[i] \in Elems) => p[i] # p[j]}

\* node.matches("[data-custom-ctxmenu]")
Matches(s, node) == node \in Elems /\ s.elemMenu[node] # NoMenu

\* node.closest("[data-custom-ctxmenu]") for the node at the head of path:
\* the node itself or its nearest ancestor that matches; "page" stands for null.
RECURSIVE Closest(_, _)
Closest(s, path) ==
    IF path = <<>> THEN "page"
    ELSE IF Matches(s, Head(path)) THEN Head(path)
    ELSE Closest(s, Tail(path))

\* targetElement as if 'closest' began the search at the target's parent.
TargetElementAbove(s, overlapStrategy, path) ==
    IF overlapStrategy = "deepest" /\ Matches(s, path[1]) THEN path[1]
    ELSE Closest(s, Tail(path))

\* targetElement of _handleTriggerEvent under this.options.overlapStrategy
TargetElement(s, overlapStrategy, path) ==
    IF overlapStrategy = "deepest" /\ Matches(s, path[1]) THEN path[1]
    ELSE Closest(s, path)

----------------------------------------------------------------------------
(* Position *)

\* The distance _showMenuDOM keeps between a menu and the viewport's edges
EdgeMargin == 10

\* _showMenuDOM as if it did not bring a menu back from beyond the left edge.
LeftUnclamped(x, width, docWidth) ==
    IF x + width > docWidth THEN docWidth - width - EdgeMargin ELSE x

\* style.left of a root menu of the given width asked for at x, in a viewport
\* docWidth wide
Left(x, width, docWidth) ==
    LET moved == IF x + width > docWidth THEN docWidth - width - EdgeMargin ELSE x
    IN  IF moved < EdgeMargin THEN EdgeMargin ELSE moved

\* style.top of a root menu of the given height asked for at y, in a viewport
\* docHeight high
Top(y, height, docHeight) ==
    LET moved == IF y + height > docHeight THEN docHeight - height - EdgeMargin ELSE y
    IN  IF moved < EdgeMargin THEN EdgeMargin ELSE moved

----------------------------------------------------------------------------
(* Touch gestures (isTouchDevice) *)

\* this.options.defaultMobileTrigger
DefaultMobileTrigger == "tap"

\* The move beyond which a touch is no longer a hold, on either axis
SlopThreshold == 15

\* The duration in ms below which a touch is a tap
TapThreshold == 300

\* config.mobileTriggerEvent || this.options.defaultMobileTrigger
MobileTrigger(config) ==
    IF "mobileTriggerEvent" \in DOMAIN config /\ config.mobileTriggerEvent # ""
    THEN config.mobileTriggerEvent ELSE DefaultMobileTrigger

\* The hold timers that are pending, and a handle setTimeout has not given out.
HoldTimers(s) == {tm \in s.timers : tm.kind = "hold"}
NewHandle(s) == CHOOSE id \in 1..(Cardinality(HoldTimers(s)) + 1) : HoldTimer(id) \notin s.timers

\* _handleTouchStart(event), the touch at `coords` on element el ("page": on
\* no bound element)
HandleTouchStart(s, el, coords) ==
    IF s.activeMenuElement # 0 THEN s
    ELSE IF el \notin Elems \/ s.elemMenu[el] = NoMenu THEN s
    ELSE IF s.elemMenu[el] \notin DOMAIN s.menuConfigurations THEN s
    ELSE LET config == s.menuConfigurations[s.elemMenu[el]]
             hold == MobileTrigger(config) = "hold"
             id == NewHandle(s)
         IN  [s EXCEPT !.listeners = @ \cup {"touchmove", "touchend"},
                       !.touchState = [live |-> TRUE, targetElement |-> el, config |-> config, startCoords |-> coords,
                                       elapsed |-> 0, isHolding |-> FALSE, timeout |-> IF hold THEN id ELSE 0],
                       !.timers = IF hold THEN @ \cup {HoldTimer(id)} ELSE @]

\* _handleTouchMove(event), the touch having moved by deltaX and deltaY
HandleTouchMove(s, deltaX, deltaY) ==
    IF ~s.touchState.live \/ s.touchState.timeout = 0 THEN s
    ELSE IF deltaX > SlopThreshold \/ deltaY > SlopThreshold
    THEN [s EXCEPT !.timers = @ \ {HoldTimer(s.touchState.timeout)},
                   !.touchState = NullTouch,
                   !.listeners = @ \ {"touchmove", "touchend"}]
    ELSE s

\* touchend: the timer of the touch is cleared, the move and end listeners removed
Ended(s) ==
    [s EXCEPT !.timers = @ \ {HoldTimer(s.touchState.timeout)},
              !.listeners = @ \ {"touchmove", "touchend"}]

\* this.touchState = null, the statement a throw of _openMenu skips
Forgotten(s) == IF s.thrown # "none" THEN s ELSE [s EXCEPT !.touchState = NullTouch]

\* _handleTouchEnd(event)
HandleTouchEnd(s) ==
    IF ~s.touchState.live THEN s
    ELSE IF s.touchState.isHolding THEN Forgotten(Ended(s))
    ELSE IF s.touchState.elapsed < TapThreshold /\ MobileTrigger(s.touchState.config) = "tap"
    THEN Forgotten(OpenMenu(Ended(s), s.touchState.config, s.touchState.targetElement))
    ELSE Forgotten(Ended(s))

\* The callback of the hold timer with handle id: it reads this.touchState,
\* which is null when the touch has ended or moved away since.
HoldTimeout(s, id) ==
    LET fired == [s EXCEPT !.timers = @ \ {HoldTimer(id)}]
    IN  IF ~s.touchState.live THEN [fired EXCEPT !.thrown = "TypeError"]
        ELSE OpenMenu([fired EXCEPT !.touchState.isHolding = TRUE], s.touchState.config, s.touchState.targetElement)

----------------------------------------------------------------------------
(* Node identities.  A node that is detached and that neither
   activeMenuElement, nor activeSubmenus, nor an open command.submenuElement
   refers to can never be shown again: it is garbage, and so are the timers
   that would only remove it once more.  The other nodes are known by their
   order of creation. *)

Live(s, n) ==
    /\ s.nodes[n].kind # "free"
    /\ \/ s.nodes[n].attached
       \/ n = s.activeMenuElement
       \/ n \in StackNodes(s)
       \/ \E c \in Cmds : s.submenuElement[c] = n /\ s.nodes[n].cls = "open"

LiveNodes(s) == {n \in NodeIds : Live(s, n)}

\* The identity each node is known by afterwards.
Renumber(s) ==
    LET live == LiveNodes(s)
    IN  [n \in 0..Stale |-> IF n \in live THEN Cardinality({m \in live : m <= n})
                            ELSE IF n = 0 THEN 0
                            ELSE Stale]

\* Nothing of a detached node's content can be pointed at.
Detached(node) == [node EXCEPT !.items = <<>>, !.target = NoElem]

Normalize(s, ren) ==
    LET live == {n \in NodeIds : ren[n] \in NodeIds}
        src == [k \in 1..Cardinality(live) |-> CHOOSE n \in live : ren[n] = k]
    IN  [s EXCEPT
            !.nodes = [k \in NodeIds |-> IF k \in DOMAIN src
                                         THEN (IF s.nodes[src[k]].attached THEN s.nodes[src[k]] ELSE Detached(s.nodes[src[k]]))
                                         ELSE FreeNode],
            !.activeMenuElement = ren[@],
            !.activeSubmenus = [i \in DOMAIN @ |-> [@[i] EXCEPT !.element = ren[@]]],
            !.timers = {[tm EXCEPT !.node = ren[@]] : tm \in {x \in @ : x.node = 0 \/ x.node \in live}},
            !.submenuElement = [c \in Cmds |-> IF @[c] \in live THEN ren[@[c]] ELSE 0],
            !.element = [c \in Cmds |-> IF @[c] \in live /\ ~s.nodes[@[c]].attached THEN Stale ELSE ren[@[c]]]]

----------------------------------------------------------------------------
(* The page and the registrations the behaviours start from *)

\* What the last handler did, for whoever called it; "idle" once that was read.
Idle == [op |-> "idle", el |-> NoElem, node |-> 0, attached |-> FALSE, cls |-> "none", prev |-> 0, prevCls |-> "none", cmd |-> NoCmd, calls |-> <<>>, events |-> <<>>, thrown |-> "none", ret |-> "none", inside |-> FALSE, arg |-> JsUndefined]

\* After construction: no menu, nothing registered, nothing bound.
Constructed ==
    /\ defaultTrigger = "contextmenu"
    /\ functionActionMap = [f \in Fns |-> ""]
    /\ menuCloseDuration = MenuCloseDuration
    /\ nodes = [n \in NodeIds |-> FreeNode]
    /\ activeMenuElement = 0
    /\ currentTargetElement = NoElem
    /\ activeSubmenus = <<>>
    /\ timers = {}
    /\ hoverOpenTimeout = NoHoverOpen
    /\ hoverHideTimeout = FALSE
    /\ submenuCloseTimeout = FALSE
    /\ openTimeout = [c \in Cmds |-> NoElem]
    /\ submenuElement = [c \in Cmds |-> 0]
    /\ element = [c \in Cmds |-> 0]
    /\ parentCommand = [c \in Cmds |-> NoCmd]
    /\ listeners = {}
    /\ hoverListeners = {}
    /\ touchState = NullTouch
    /\ last = Idle

\* Root menus: a page with a flat context menu m1 (filter strategy "disable")
\* on e1 and a hover menu m2 on e2 and e3, after addMenuConfiguration,
\* registerAction("save", fnOk) and bindMenuToElements.
Init ==
    /\ Constructed
    /\ globalFilterStrategy = "hide"
    /\ commands = InitCommands
    /\ menuConfigurations = [m1 |-> Config(<<"cOpen", "cBoom", "cGhost", "cEdit", "cOff">>, "contextmenu", "auto", "disable"),
                             m2 |-> Config(<<"cOnly">>, "hover", "auto", "hide")]
    /\ registeredActions = [save |-> JsFn("fnOk"), ghost |-> JsUndefined]
    /\ elemMenu = [e1 |-> "m1", e2 |-> "m2", e3 |-> "m2"]
    /\ elemType = [e1 |-> "folder", e2 |-> "folder", e3 |-> "image"]
    /\ triggerListeners = {"contextmenu", "mouseover", "mouseout"}

\* Submenus: a page with one context menu m1 (filter strategy "disable") on
\* e1, two of whose items have a submenu: More, and Void, whose one command
\* is invisible.
SubmenuInit ==
    /\ Constructed
    /\ globalFilterStrategy = "hide"
    /\ commands = InitCommands
    /\ menuConfigurations = [m1 |-> Config(<<"cEdit", "cMore", "cVoid">>, "contextmenu", "auto", "disable")]
    /\ registeredActions = [save |-> JsFn("fnOk"), ghost |-> JsUndefined]
    /\ elemMenu = [e1 |-> "m1", e2 |-> NoMenu, e3 |-> NoMenu]
    /\ elemType = [e1 |-> "folder", e2 |-> "", e3 |-> ""]
    /\ triggerListeners = {"contextmenu"}

\* The handler's result becomes the state; `l` records what the handler did.
Commit(r, l) ==
    LET ren == Renumber(r)
        z == Normalize(r, ren)
    IN  /\ globalFilterStrategy' = z.globalFilterStrategy
        /\ defaultTrigger' = z.defaultTrigger
        /\ menuCloseDuration' = z.menuCloseDuration
        /\ menuConfigurations' = z.menuConfigurations
        /\ commands' = z.commands
        /\ registeredActions' = z.registeredActions
        /\ functionActionMap' = z.functionActionMap
        /\ elemMenu' = z.elemMenu
        /\ elemType' = z.elemType
        /\ nodes' = z.nodes
        /\ activeMenuElement' = z.activeMenuElement
        /\ currentTargetElement' = z.currentTargetElement
        /\ activeSubmenus' = z.activeSubmenus
        /\ triggerListeners' = z.triggerListeners
        /\ timers' = z.timers
        /\ hoverOpenTimeout' = z.hoverOpenTimeout
        /\ hoverHideTimeout' = z.hoverHideTimeout
        /\ submenuCloseTimeout' = z.submenuCloseTimeout
        /\ openTimeout' = z.openTimeout
        /\ submenuElement' = z.submenuElement
        /\ element' = z.element
        /\ parentCommand' = z.parentCommand
        /\ listeners' = z.listeners
        /\ hoverListeners' = z.hoverListeners
        /\ touchState' = z.touchState
        /\ last' = [l EXCEPT !.node = ren[@], !.prev = ren[@]]

\* What a handler that worked on node n (0: on none) leaves to be seen: the
\* node as the handler left it, whether it was the active root or a submenu of
\* the stack when the handler began, the root that was active before, the callbacks
\* called, the notifications dispatched and the error thrown.
Observed(op, el, n, cmd, r, ret) ==
    [ op |-> op, el |-> el, node |-> n,
      attached |-> IF n \in NodeIds THEN r.nodes[n].attached ELSE FALSE,
      cls |-> IF n \in NodeIds THEN r.nodes[n].cls ELSE "none",
      prev |-> activeMenuElement,
      prevCls |-> IF activeMenuElement # 0 THEN nodes[activeMenuElement].cls ELSE "none",
      cmd |-> cmd,
      calls |-> r.calls, events |-> r.events, thrown |-> r.thrown, ret |-> ret,
      inside |-> n # 0 /\ (n = activeMenuElement \/ n \in StackNodes(State)),
      arg |-> JsUndefined ]

\* What a public method called with argument `arg` for element el leaves to be seen.
Called(op, el, arg, r, ret) == [Observed(op, el, 0, NoCmd, r, ret) EXCEPT !.arg = arg]

----------------------------------------------------------------------------
(* Actions: one per event handler, timer callback and public method.  A
   handler runs when the previous handler's outcome has been taken note of. *)

Ready == last.op = "idle"

\* The outcome of the last handler has been read.
Settle ==
    /\ last.op # "idle"
    /\ last' = Idle
    /\ UNCHANGED <<globalFilterStrategy, defaultTrigger, menuCloseDuration, menuConfigurations, commands, registeredActions, functionActionMap, elemMenu, elemType, nodes, activeMenuElement, currentTargetElement, activeSubmenus, triggerListeners, timers, hoverOpenTimeout, hoverHideTimeout, submenuCloseTimeout, openTimeout, submenuElement, element, parentCommand, listeners, touchState, hoverListeners>>

\* The user can point at the items of a node that is attached and displayed.
Interactable(n) == nodes[n].attached /\ nodes[n].cls \in {"opening", "open", "closing"}

\* A listened trigger event (contextmenu, mouseover, mouseout) on a bound
\* element or elsewhere on the page.
TriggerEvent ==
    \E ev \in triggerListeners \ {"click"}, el \in {e \in Elems : elemMenu[e] # NoMenu} \cup {"page"} :
        LET d == TriggerDecision(State, ev, el)
        IN  /\ Ready
            /\ d = "open" => CanCreateRoot(State)
            /\ LET r == HandleTriggerEvent(State, ev, el)
               IN  IF d = "open" THEN Commit(r, Observed("open", el, NewNode(State), NoCmd, r, "none"))
                   ELSE IF d = "throw" THEN Commit(r, Observed("trigger", el, 0, NoCmd, r, "none"))
                   ELSE Commit(r, Idle)

\* What _handleTriggerEvent is seen to have done with an event whose target
\* has the ancestors of path, under the overlap strategy: the element it
\* acted for and the branch it ended in.
Routed(el, d, overlapStrategy, path, r) ==
    Commit(r, [Observed("route", el, IF d = "open" THEN NewNode(State) ELSE 0, NoCmd, r, d)
                  EXCEPT !.arg = [t |-> overlapStrategy, v |-> path]])

\* A contextmenu or mouseover event on a node nested in bound and unbound
\* nodes, with the instance constructed under either overlap strategy.
NestedTriggerEvent ==
    \E ev \in triggerListeners \ {"click", "mouseout"}, path \in Paths, overlapStrategy \in {"deepest", "closest"} :
        /\ Ready
        /\ TriggerDecision(State, ev, TargetElement(State, overlapStrategy, path)) = "open" => CanCreateRoot(State)
        /\ Routed(TargetElement(State, overlapStrategy, path),
                  TriggerDecision(State, ev, TargetElement(State, overlapStrategy, path)),
                  overlapStrategy, path,
                  HandleTriggerEvent(State, ev, TargetElement(State, overlapStrategy, path)))

\* The hover-open timer of _handleTriggerEvent fires.
HoverOpenTimerFires ==
    /\ Ready
    /\ hoverOpenTimeout.pending
    /\ CanCreateRoot(State)
    /\ LET r == OpenMenu([State EXCEPT !.hoverOpenTimeout = NoHoverOpen], hoverOpenTimeout.config, hoverOpenTimeout.target)
       IN  Commit(r, Observed("open", hoverOpenTimeout.target, NewNode(State), NoCmd, r, "none"))

\* openMenu(targetOrSelector, x, y) on an element of the document, or with a
\* selector that matches nothing ("nothing")
OpenMenuCall ==
    \E el \in Elems \cup {"nothing"} :
        /\ Ready
        /\ IF el \notin Elems \/ elemMenu[el] \in {NoMenu, ""} \/ elemMenu[el] \notin DOMAIN menuConfigurations
           THEN Commit(State, Observed("openMenu", el, 0, NoCmd, State, "false"))
           ELSE /\ CanCreateRoot(State)
                /\ LET r == OpenMenu(State, menuConfigurations[elemMenu[el]], el)
                   IN  Commit(r, Observed("open", el, NewNode(State), NoCmd, r, IF r.thrown = "none" THEN "true" ELSE "none"))

\* closeMenu(instant)
CloseMenuCall ==
    \E instant \in BOOLEAN :
        /\ Ready
        /\ Commit(HideMenu(State, activeMenuElement, instant), Idle)

\* _handleKeydown with key Escape
EscapeKey ==
    /\ Ready
    /\ "keydown" \in listeners
    /\ LET r == HideMenu(State, activeMenuElement, FALSE)
       IN  Commit(r, Observed("escape", currentTargetElement, activeMenuElement, NoCmd, r, "none"))

\* _handleScroll
Scroll ==
    /\ Ready
    /\ "scroll" \in listeners
    /\ LET r == IF activeMenuElement # 0 THEN HideMenu(State, activeMenuElement, FALSE) ELSE State
       IN  Commit(r, Observed("scroll", currentTargetElement, activeMenuElement, NoCmd, r, "none"))

\* A click that reaches no action <li>'s listener: on the page (0), or in a
\* menu node on its padding, on a sublist item or on a separator.
ClickElsewhere ==
    \E inside \in {0} \cup {n \in NodeIds : Interactable(n)} :
        /\ Ready
        /\ "click" \in listeners
        /\ LET r == HandleOutsideClick(State, inside)
           IN  Commit(r, Observed("clickElsewhere", currentTargetElement, inside, NoCmd, r, "none"))

\* A click on an action <li>.  The capturing document listener
\* (_handleOutsideClick), when registered, runs first; then the <li>'s own
\* listener, which stops the propagation.
ClickItem ==
    \E n \in NodeIds :
        /\ Ready
        /\ Interactable(n)
        /\ \E i \in DOMAIN nodes[n].items :
              /\ commands[nodes[n].items[i].cmd].type = "action"
              /\ LET captured == IF "click" \in listeners THEN HandleOutsideClick(State, n) ELSE State
                     r == ItemClick(captured, n, i)
                 IN  Commit(r, Observed("click", nodes[n].target, n, nodes[n].items[i].cmd, r, "none"))

\* mouseenter on an <li>
EnterItem ==
    \E n \in NodeIds :
        /\ Ready
        /\ Interactable(n)
        /\ \E i \in DOMAIN nodes[n].items :
              LET r == ItemMouseEnter(State, n, i)
              IN  Commit(r, Observed("enter", nodes[n].target, n, nodes[n].items[i].cmd, r, "none"))

\* mouseleave on an <li> that is no separator, or on a submenu node:
\* _scheduleAllSubmenusClose
LeaveItemOrSubmenu ==
    /\ Ready
    /\ \E n \in NodeIds :
          /\ Interactable(n)
          /\ \/ nodes[n].kind = "sub"
             \/ \E i \in DOMAIN nodes[n].items : commands[nodes[n].items[i].cmd].type # "separator"
    /\ Commit([State EXCEPT !.submenuCloseTimeout = TRUE], Idle)

\* mousemove inside a submenu node: _cancelAllSubmenusClose
MoveInSubmenu ==
    /\ Ready
    /\ \E n \in NodeIds : Interactable(n) /\ nodes[n].kind = "sub"
    /\ Commit([State EXCEPT !.submenuCloseTimeout = FALSE], Idle)

\* The timer of _scheduleSubmenuOpen fires.
SubmenuOpenTimerFires ==
    \E c \in Cmds :
        /\ Ready
        /\ openTimeout[c] # NoElem
        /\ NeedsNewSubmenuNode(State, c) => FreeIds(State) # {}
        /\ Len(activeSubmenus) < MaxStack + Nesting(State)
        /\ LET r == OpenSubmenu([State EXCEPT !.openTimeout[c] = NoElem], c, openTimeout[c])
           IN  Commit(r, Observed("openSubmenu", openTimeout[c], submenuElement[c], c, r, "none"))

\* The timer of _scheduleAllSubmenusClose fires.
SubmenuCloseTimerFires ==
    /\ Ready
    /\ submenuCloseTimeout
    /\ Commit(CloseSubmenus([State EXCEPT !.submenuCloseTimeout = FALSE], FALSE), Idle)

\* mouseleave on the triggering element or on the root node: _scheduleHoverHide
HoverLeave ==
    /\ Ready
    /\ \/ \E el \in Elems : <<el, "mouseleave">> \in hoverListeners
       \/ \E n \in NodeIds : Interactable(n) /\ nodes[n].hov
    /\ Commit([State EXCEPT !.hoverHideTimeout = TRUE], Idle)

\* mouseenter on the triggering element or on the root node: _cancelHoverHide
HoverEnter ==
    /\ Ready
    /\ \/ \E el \in Elems : <<el, "mouseenter">> \in hoverListeners
       \/ \E n \in NodeIds : Interactable(n) /\ nodes[n].hov
    /\ Commit([State EXCEPT !.hoverHideTimeout = FALSE], Idle)

\* The timer of _scheduleHoverHide fires.
HoverHideTimerFires ==
    /\ Ready
    /\ hoverHideTimeout
    /\ Commit(HideMenu([State EXCEPT !.hoverHideTimeout = FALSE], activeMenuElement, FALSE), Idle)

\* What the closure hide() is seen to have done to node n.
Removed(n, r) == Commit(r, Observed("hideTimer", nodes[n].target, n, NoCmd, r, "none"))

\* setTimeout(hide, menuCloseDuration) of _hideMenu fires.
HideTimerFires ==
    \E n \in NodeIds :
        /\ Ready
        /\ Timer("hide", n) \in timers
        /\ Removed(n, Hide([State EXCEPT !.timers = @ \ {Timer("hide", n)}], n))

\* setTimeout(close, menuCloseDuration) of _closeSubmenus fires.
SubmenuCloseAnimationEnds ==
    \E n \in NodeIds :
        /\ Ready
        /\ Timer("subclose", n) \in timers
        /\ Commit(CloseSubmenuNow([State EXCEPT !.timers = @ \ {Timer("subclose", n)}], n), Idle)

\* The setTimeout of _closeSingleSubmenu fires: the node is removed.
SingleSubmenuAnimationEnds ==
    \E n \in NodeIds :
        /\ Ready
        /\ Timer("subsingle", n) \in timers
        /\ Commit([State EXCEPT !.timers = @ \ {Timer("subsingle", n)}, !.nodes[n].attached = FALSE], Idle)

\* The setTimeout(..., 0) of _openMenu fires: the outside-click listener is added.
AddClickListenerTimerFires ==
    /\ Ready
    /\ Timer("addclick", 0) \in timers
    /\ Commit([State EXCEPT !.timers = @ \ {Timer("addclick", 0)}, !.listeners = @ \cup {"click"}], Idle)

\* The types a caller passes to bindMenuToElements: a type, the empty string, none.
TypeArgs == {JsStr("folder"), JsStr("image"), JsStr(""), JsUndefined}

\* bindMenuToElements(el, menuId, type)
BindMenuCall ==
    \E el \in {"e1", "nothing"}, m \in MenuIds, type \in TypeArgs :
        /\ Ready
        /\ LET r == BindMenuToElements(State, el, JsStr(m), type)
           IN  Commit(r, [Called("bind", el, type, r, "none") EXCEPT !.cmd = m])

\* unbindMenuFromElements(el)
UnbindMenuCall ==
    \E el \in {"e1", "nothing"} :
        /\ Ready
        /\ LET r == UnbindMenuFromElements(State, el)
           IN  Commit(r, Called("unbind", el, JsUndefined, r, "none"))

\* The declarations given to createAndBindMenu: Open(order 2) | Edit(order 1)
\* | More > ( SubA(order 2) | Off(order 1) ) | Boom | Only(no target types);
\* Edit, SubA, Off and Only share the callback fnOk, Boom has fnThrow.
DeclaredCommands ==
    [InitCommands EXCEPT !["cOpen"].order = 2, !["cEdit"].order = 1,
                         !["cSubA"].order = 2, !["cOff"].order = 1,
                         !["cOnly"].targetTypes = {}]

\* The structures each menu id is created with.
Structures(menuId) ==
    IF menuId = "m1" THEN {<<"cOpen", "cEdit">>, <<"cOpen", "cMore">>} ELSE {<<"cBoom", "cOnly">>}

\* createAndBindMenu({menuId, defaultTargetType: "folder", selector, structure})
CreateAndBindMenuCall ==
    \E menuId \in MenuIds, selector \in {"e1", NoElem} :
        \E structure \in Structures(menuId) :
            /\ Ready
            /\ GenNames \ DOMAIN registeredActions # {}
            /\ LET r == CreateAndBindMenu(State, DeclaredCommands, menuId, "folder", selector, structure)
               IN  Commit(r, [Called("createAndBindMenu", selector, JsStr(menuId), r, "none") EXCEPT !.cmd = menuId])

\* The actions a caller of updateMenuCommand names, and the fields it gives.
ActionRefs == {JsStr("save"), JsStr("nope"), JsFn("fnOk"), JsFn("fnThrow")}
Updates == {[label |-> "X"], [label |-> "Y"]}

\* updateMenuCommand(menuId, action, updates)
UpdateMenuCommandCall ==
    \E menuId \in MenuIds, action \in ActionRefs, updates \in Updates :
        /\ Ready
        /\ LET u == UpdateMenuCommand(State, menuId, action, updates)
           IN  Commit(u.state, [Called("updateMenuCommand", NoElem, action, u.state, u.ret) EXCEPT !.cmd = menuId, !.events = <<updates>>])

\* Commands: nothing created yet; one action registered by name.
CommandInit ==
    /\ Constructed
    /\ globalFilterStrategy = "hide"
    /\ commands = DeclaredCommands
    /\ menuConfigurations = <<>>
    /\ registeredActions = [save |-> JsFn("fnSave")]
    /\ elemMenu = [e \in Elems |-> NoMenu]
    /\ elemType = [e \in Elems |-> ""]
    /\ triggerListeners = {"contextmenu"}

\* The registrations of the page: m1 never with an override, m2 with or
\* without a trigger and a close override.
Registrations(id) ==
    IF id = "m1" THEN {Config(<<"cOpen">>, "", "", "")}
    ELSE {Config(list, trigger, close, "") : list \in {<<"cOpen", "cEdit">>, <<"cBoom">>},
                                             trigger \in {"", "hover", "dblclick"}, close \in {"", "mouseout"}}

\* addMenuConfiguration({id, commands, triggerEvent, closeTriggerEvent})
AddMenuConfigurationCall ==
    \E id \in MenuIds :
        \E configOptions \in Registrations(id) :
            /\ Ready
            /\ LET r == AddMenuConfiguration(State, id, configOptions)
                   earlier == IF id \in DOMAIN menuConfigurations THEN <<menuConfigurations[id]>> ELSE <<>>
               IN  Commit(r, [Called("addMenuConfiguration", NoElem, JsStr(id), r, "none") EXCEPT !.cmd = id, !.events = earlier, !.calls = <<configOptions>>])

\* updateMenuConfiguration("m2", newOptions)
UpdateMenuConfigurationCall ==
    \E newOptions \in {[triggerEvent |-> "hover"], [triggerEvent |-> "dblclick"], [closeTriggerEvent |-> "mouseout"]} :
        /\ Ready
        /\ LET r == UpdateMenuConfiguration(State, "m2", newOptions)
           IN  Commit(r, [Called("updateMenuConfiguration", NoElem, JsStr("m2"), r, "none") EXCEPT !.cmd = "m2"])

\* updateOptions({defaultTrigger})
UpdateOptionsCall ==
    \E trigger \in {"contextmenu", "dblclick", "hover"} :
        /\ Ready
        /\ LET r == UpdateOptions(State, [defaultTrigger |-> trigger])
           IN  Commit(r, Called("updateOptions", NoElem, JsStr(trigger), r, "none"))

\* Options: m1 registered with no override under the defaults of the
\* constructor and bound to e1; m2 not registered yet and bound to no element.
OptionsInit ==
    /\ Constructed
    /\ globalFilterStrategy = "hide"
    /\ commands = DeclaredCommands
    /\ menuConfigurations = [m1 |-> Config(<<"cOpen">>, "contextmenu", "auto", "hide")]
    /\ registeredActions = [save |-> JsFn("fnOk"), ghost |-> JsUndefined]
    /\ elemMenu = [e1 |-> "m1", e2 |-> NoMenu, e3 |-> NoMenu]
    /\ elemType = [e1 |-> "folder", e2 |-> "", e3 |-> ""]
    /\ triggerListeners = {"contextmenu"}

\* The points a finger can touch, and the moments after the touch began (ms)
\* that the handlers tell apart.
Coords == {"p1", "p2"}
Instants == {0, TapThreshold - 1, TapThreshold}
Deltas == {0, SlopThreshold, SlopThreshold + 1}

\* What a touch handler that left the state r is seen to have done.
Touched(op, el, n, r, ret, p) == Commit(r, [Observed(op, el, n, NoCmd, r, ret) EXCEPT !.arg = JsPoint(p), !.calls = <<r.touchState.timeout>>])

\* touchstart on a bound element or elsewhere on the page
TouchStartEvent ==
    \E el \in {e \in Elems : elemMenu[e] # NoMenu} \cup {"page"}, p \in Coords :
        /\ Ready
        /\ Cardinality(HoldTimers(State)) < MaxHolds
        /\ Touched("touchstart", el, 0, HandleTouchStart(State, el, p), "none", p)

\* touchmove, the finger deltaX and deltaY away from where it began
TouchMoveEvent ==
    \E deltaX \in Deltas, deltaY \in Deltas :
        /\ Ready
        /\ "touchmove" \in listeners
        /\ Touched("touchmove", touchState.targetElement, 0, HandleTouchMove(State, deltaX, deltaY),
                   IF deltaX > SlopThreshold \/ deltaY > SlopThreshold THEN "far" ELSE "near", touchState.startCoords)

\* touchend
TouchEndEvent ==
    /\ Ready
    /\ "touchend" \in listeners
    /\ LET opens == touchState.live /\ ~touchState.isHolding /\ touchState.elapsed < TapThreshold /\ MobileTrigger(touchState.config) = "tap"
       IN  /\ opens => CanCreateRoot(State)
           /\ Touched("touchend", touchState.targetElement, IF opens THEN NewNode(State) ELSE 0, HandleTouchEnd(State),
                      IF touchState.isHolding THEN "held" ELSE "none", touchState.startCoords)

\* A hold timer fires, holdDuration after the touchstart that set it.
HoldTimerFires ==
    \E tm \in HoldTimers(State) :
        /\ Ready
        /\ touchState.live => CanCreateRoot(State)
        /\ Touched("hold", touchState.targetElement, IF touchState.live THEN NewNode(State) ELSE 0, HoldTimeout(State, tm.id),
                   IF touchState.live /\ touchState.timeout = tm.id /\ ~touchState.isHolding THEN "own" ELSE "orphan", touchState.startCoords)

\* Time passes while a touch is followed.
TimePasses ==
    \E t \in Instants :
        /\ Ready
        /\ touchState.live
        /\ t > touchState.elapsed
        /\ Commit([State EXCEPT !.touchState.elapsed = t], Idle)

\* Touch: on a touch device, m1 opens by a hold on e1 and m2 by a tap on e2.
TouchInit ==
    /\ Constructed
    /\ globalFilterStrategy = "hide"
    /\ commands = InitCommands
    /\ menuConfigurations = [m1 |-> Config(<<"cOpen">>, "contextmenu", "auto", "hide") @@ [mobileTriggerEvent |-> "hold"],
                             m2 |-> Config(<<"cOnly">>, "contextmenu", "auto", "hide") @@ [mobileTriggerEvent |-> "tap"]]
    /\ registeredActions = [save |-> JsFn("fnOk"), ghost |-> JsUndefined]
    /\ elemMenu = [e1 |-> "m1", e2 |-> "m2", e3 |-> NoMenu]
    /\ elemType = [e1 |-> "folder", e2 |-> "folder", e3 |-> "folder"]
    /\ triggerListeners = {"contextmenu"}

\* On one axis: where a menu is asked for, its extent, and the viewport's.
\* Every case on one axis is paired with a few on the other.
Placements == {<<p, size, view>> : p \in (0 - 2)..(MaxView + 2), size \in 1..MaxView, view \in {MaxView - 1, MaxView}}
FewPlacements == {<<EdgeMargin, 1, MaxView>>, <<MaxView, MaxView - 1, MaxView>>}

\* A root menu is opened at (x, y): _openMenu, whose _buildAndShowMenu ends
\* in _showMenuDOM(menu, x, y, ...), the menu's rectangle and the viewport
\* being what the browser reports.
ShowMenuAt ==
    \E h \in Placements, v \in FewPlacements :
        \E swap \in BOOLEAN :
            LET a == IF swap THEN v ELSE h
                b == IF swap THEN h ELSE v
            IN  /\ Ready
                /\ CanCreateRoot(State)
                /\ LET r == OpenMenu(State, menuConfigurations["m1"], "e1")
                   IN  Commit(r, [Observed("show", "e1", NewNode(State), NoCmd, r, "none")
                                    EXCEPT !.calls = [x |-> a[1], width |-> a[2], docWidth |-> a[3], left |-> Left(a[1], a[2], a[3]),
                                                      y |-> b[1], height |-> b[2], docHeight |-> b[3], top |-> Top(b[1], b[2], b[3])]])

\* Routing: a context menu m1 on e1, a hover menu m2 on e3, and e2 bound to
\* the menu id "m9", which no configuration is registered for.
RoutingInit ==
    /\ Constructed
    /\ globalFilterStrategy = "hide"
    /\ commands = InitCommands
    /\ menuConfigurations = [m1 |-> Config(<<"cOpen", "cOff">>, "contextmenu", "auto", "disable"),
                             m2 |-> Config(<<"cOnly">>, "hover", "auto", "hide")]
    /\ registeredActions = [save |-> JsFn("fnOk"), ghost |-> JsUndefined]
    /\ elemMenu = [e1 |-> "m1", e2 |-> "m9", e3 |-> "m2"]
    /\ elemType = [e1 |-> "folder", e2 |-> "folder", e3 |-> "folder"]
    /\ triggerListeners = {"contextmenu", "mouseover", "mouseout"}

\* Declarations without a label: the action Edit, the separator, the sublist
\* Void, and SubA below the sublist More.
UnlabelledCommands ==
    [InitCommands EXCEPT !["cEdit"].label = "", !["cSep"].label = "", !["cVoid"].label = "", !["cSubA"].label = ""]

\* addMenuConfiguration({id, commands}) with plain declarations
AddDeclaredConfigurationCall ==
    \E copy \in Copies, id \in MenuIds :
        \E list \in {<<"cOpen">>, <<"cOpen", "cSep">>, <<"cOpen", "cEdit">>, <<"cMore">>, <<"cVoid", "cOff">>} :
            /\ Ready
            /\ LET r == AddDeclaredConfiguration(State, copy, UnlabelledCommands, id, Config(list, "", "", ""))
               IN  Commit(r, [Called("addMenuConfiguration", NoElem, JsStr(copy), r, "none") EXCEPT !.cmd = id, !.calls = <<Config(list, "", "", "")>>])

\* Validation: nothing registered; the declarations of UnlabelledCommands at hand.
ValidationInit ==
    /\ Constructed
    /\ globalFilterStrategy = "hide"
    /\ commands = UnlabelledCommands
    /\ menuConfigurations = <<>>
    /\ registeredActions = [save |-> JsFn("fnOk"), ghost |-> JsUndefined]
    /\ elemMenu = [e \in Elems |-> NoMenu]
    /\ elemType = [e \in Elems |-> ""]
    /\ triggerListeners = {"contextmenu"}

\* Binding: the menus m1 and m2 registered, no element of the page bound yet.
BindInit ==
    /\ Constructed
    /\ globalFilterStrategy = "hide"
    /\ commands = InitCommands
    /\ menuConfigurations = [m1 |-> Config(<<"cOpen", "cEdit">>, "contextmenu", "auto", "disable"),
                             m2 |-> Config(<<"cOnly">>, "contextmenu", "auto", "hide")]
    /\ registeredActions = [save |-> JsFn("fnOk"), ghost |-> JsUndefined]
    /\ elemMenu = [e \in Elems |-> NoMenu]
    /\ elemType = [e \in Elems |-> ""]
    /\ triggerListeners = {"contextmenu"}

\* Nested submenus: a page with one context menu m1 on e1 whose item Deep has
\* a submenu whose item More has a submenu of its own.
CascadeInit ==
    /\ Constructed
    /\ globalFilterStrategy = "hide"
    /\ commands = InitCommands
    /\ menuConfigurations = [m1 |-> Config(<<"cDeep", "cSep", "cEdit">>, "contextmenu", "auto", "disable")]
    /\ registeredActions = [save |-> JsFn("fnOk"), ghost |-> JsUndefined]
    /\ elemMenu = [e1 |-> "m1", e2 |-> NoMenu, e3 |-> NoMenu]
    /\ elemType = [e1 |-> "folder", e2 |-> "", e3 |-> ""]
    /\ triggerListeners = {"contextmenu"}

\* Sibling submenus: the menu m1 on e1 has two sublist items, Deep (whose
\* submenu holds the sublist More) and Void, here with one enabled command.
SiblingInit ==
    /\ Constructed
    /\ globalFilterStrategy = "hide"
    /\ commands = [InitCommands EXCEPT !.cVoid.subCommands = <<"cOff">>]
    /\ menuConfigurations = [m1 |-> Config(<<"cDeep", "cVoid">>, "contextmenu", "auto", "disable")]
    /\ registeredActions = [save |-> JsFn("fnOk"), ghost |-> JsUndefined]
    /\ elemMenu = [e1 |-> "m1", e2 |-> NoMenu, e3 |-> NoMenu]
    /\ elemType = [e1 |-> "folder", e2 |-> "", e3 |-> ""]
    /\ triggerListeners = {"contextmenu"}

\* Filtered submenus: the menu m1 on e1 has the sublist items More and Void
\* (here with one command) and the command Edit, for every pairing of the menu's and the instance's filter
\* strategies and for a target type that matches More's first command or not.
FilterInit ==
    /\ Constructed
    /\ globalFilterStrategy \in {"hide", "disable"}
    /\ commands = [InitCommands EXCEPT !.cVoid.subCommands = <<"cOff">>]
    /\ \E filter \in {"hide", "disable", ""} :
          menuConfigurations = [m1 |-> Config(<<"cMore", "cVoid", "cEdit">>, "contextmenu", "auto", filter)]
    /\ registeredActions = [save |-> JsFn("fnOk"), ghost |-> JsUndefined]
    /\ elemMenu = [e1 |-> "m1", e2 |-> NoMenu, e3 |-> NoMenu]
    /\ \E type \in {"folder", "image"} : elemType = [e1 |-> type, e2 |-> "", e3 |-> ""]
    /\ triggerListeners = {"contextmenu"}

\* Hover-closed submenus: the menu m1 on e1 closes on mouseout, by its own
\* close trigger or as a hover menu, and has the sublist item More.
HoverSubmenuInit ==
    /\ Constructed
    /\ globalFilterStrategy = "hide"
    /\ commands = InitCommands
    /\ \E style \in {<<"contextmenu", "mouseout">>, <<"hover", "auto">>} :
          menuConfigurations = [m1 |-> Config(<<"cMore", "cOpen">>, style[1], style[2], "")]
    /\ registeredActions = [save |-> JsFn("fnOk"), ghost |-> JsUndefined]
    /\ elemMenu = [e1 |-> "m1", e2 |-> NoMenu, e3 |-> NoMenu]
    /\ elemType = [e1 |-> "folder", e2 |-> "", e3 |-> ""]
    /\ triggerListeners = {"contextmenu", "mouseover", "mouseout"}

\* Nesting: the context menus m1 and m2; e1 and e2 are bound to one of them
\* or to none, e3 to none.
NestingInit ==
    /\ Constructed
    /\ globalFilterStrategy = "hide"
    /\ commands = InitCommands
    /\ menuConfigurations = [m1 |-> Config(<<"cOpen", "cOff">>, "contextmenu", "auto", "disable"),
                             m2 |-> Config(<<"cOnly">>, "contextmenu", "auto", "hide")]
    /\ registeredActions = [save |-> JsFn("fnOk"), ghost |-> JsUndefined]
    /\ \E b1 \in {"m1", NoMenu}, b2 \in {"m1", "m2", NoMenu} : elemMenu = [e1 |-> b1, e2 |-> b2, e3 |-> NoMenu]
    /\ elemType = [e1 |-> "folder", e2 |-> "folder", e3 |-> "folder"]
    /\ triggerListeners = {"contextmenu", "mouseover", "mouseout"}

\* Builds: a page with one element e1 bound to a menu of one command and
\* one separator, for every setting of the command's visible and disabled
\* flags and target types, of the element's type attribute, and of the
\* menu's and the instance's filter strategies.
BuildInit ==
    /\ Constructed
    /\ globalFilterStrategy \in {"hide", "disable"}
    /\ \E targetTypes \in {{"*"}, {"folder"}, {"image"}, {"default"}, {"folder", "image"}, {}}, disabled \in BOOLEAN, visible \in BOOLEAN :
          commands = [InitCommands EXCEPT !.cOpen = Cmd("action", JsFn("fnOk"), targetTypes, <<>>, disabled, visible)]
    /\ \E filter \in {"hide", "disable", ""} :
          menuConfigurations = [m1 |-> Config(<<"cOpen", "cSep">>, "contextmenu", "auto", filter)]
    /\ registeredActions = [save |-> JsFn("fnOk"), ghost |-> JsUndefined]
    /\ elemMenu = [e1 |-> "m1", e2 |-> NoMenu, e3 |-> NoMenu]
    /\ \E type \in {"", "folder", "image"} : elemType = [e1 |-> type, e2 |-> "", e3 |-> ""]
    /\ triggerListeners = {"contextmenu"}

\* The handlers at work on a page whose menus are flat.
Next ==
    \/ Settle
    \/ TriggerEvent
    \/ HoverOpenTimerFires
    \/ OpenMenuCall
    \/ CloseMenuCall
    \/ EscapeKey
    \/ Scroll
    \/ ClickElsewhere
    \/ ClickItem
    \/ HoverLeave
    \/ HoverEnter
    \/ HoverHideTimerFires
    \/ HideTimerFires
    \/ AddClickListenerTimerFires

\* The handlers that place a root menu and take it away.
PositionNext ==
    \/ Settle
    \/ ShowMenuAt
    \/ CloseMenuCall
    \/ HideTimerFires

PositionSpec == Init /\ [][PositionNext]_vars

TouchNext ==
    \/ Settle
    \/ TouchStartEvent
    \/ TouchMoveEvent
    \/ TouchEndEvent
    \/ HoldTimerFires
    \/ TimePasses
    \/ ClickElsewhere
    \/ HideTimerFires
    \/ AddClickListenerTimerFires

TouchSpec == TouchInit /\ [][TouchNext]_vars

Spec == Init /\ [][Next]_vars

\* The handlers a build takes part in.
BuildNext ==
    \/ Settle
    \/ OpenMenuCall
    \/ CloseMenuCall
    \/ HideTimerFires

BuildSpec == BuildInit /\ [][BuildNext]_vars

\* The handlers at work on a page whose menu nests and opens on contextmenu.
SubmenuNext ==
    \/ Settle
    \/ TriggerEvent
    \/ OpenMenuCall
    \/ CloseMenuCall
    \/ EscapeKey
    \/ Scroll
    \/ ClickElsewhere
    \/ ClickItem
    \/ EnterItem
    \/ LeaveItemOrSubmenu
    \/ MoveInSubmenu
    \/ SubmenuOpenTimerFires
    \/ SubmenuCloseTimerFires
    \/ HideTimerFires
    \/ SubmenuCloseAnimationEnds
    \/ SingleSubmenuAnimationEnds
    \/ AddClickListenerTimerFires

SubmenuSpec == SubmenuInit /\ [][SubmenuNext]_vars

\* The handlers at work while the pointer moves over a menu that nests twice.
CascadeNext ==
    \/ Settle
    \/ TriggerEvent
    \/ EnterItem
    \/ SubmenuOpenTimerFires
    \/ HideTimerFires
    \/ SubmenuCloseAnimationEnds
    \/ SingleSubmenuAnimationEnds
    \/ AddClickListenerTimerFires

CascadeSpec == CascadeInit /\ [][CascadeNext]_vars

SiblingSpec == SiblingInit /\ [][CascadeNext]_vars

\* The handlers at work while the pointer moves over a menu and off it.
FilterNext ==
    \/ Settle
    \/ TriggerEvent
    \/ EnterItem
    \/ LeaveItemOrSubmenu
    \/ SubmenuOpenTimerFires
    \/ SubmenuCloseTimerFires
    \/ HideTimerFires
    \/ SubmenuCloseAnimationEnds
    \/ SingleSubmenuAnimationEnds
    \/ AddClickListenerTimerFires

FilterSpec == FilterInit /\ [][FilterNext]_vars

\* The handlers at work while the pointer moves over a menu that closes on
\* mouseout and over its submenus.
HoverSubmenuNext ==
    \/ Settle
    \/ TriggerEvent
    \/ HoverOpenTimerFires
    \/ HoverLeave
    \/ HoverEnter
    \/ HoverHideTimerFires
    \/ EnterItem
    \/ LeaveItemOrSubmenu
    \/ MoveInSubmenu
    \/ SubmenuOpenTimerFires
    \/ SubmenuCloseTimerFires
    \/ HideTimerFires
    \/ SubmenuCloseAnimationEnds
    \/ SingleSubmenuAnimationEnds

HoverSubmenuSpec == HoverSubmenuInit /\ [][HoverSubmenuNext]_vars

\* The handlers at work on a page whose bound elements are nested.
NestingNext ==
    \/ Settle
    \/ NestedTriggerEvent
    \/ EscapeKey
    \/ HideTimerFires
    \/ AddClickListenerTimerFires

NestingSpec == NestingInit /\ [][NestingNext]_vars

CommandNext ==
    \/ Settle
    \/ CreateAndBindMenuCall
    \/ UpdateMenuCommandCall

CommandSpec == CommandInit /\ [][CommandNext]_vars

OptionsNext ==
    \/ Settle
    \/ UpdateOptionsCall
    \/ AddMenuConfigurationCall
    \/ UpdateMenuConfigurationCall
    \/ TriggerEvent
    \/ HoverOpenTimerFires
    \/ HideTimerFires
    \/ AddClickListenerTimerFires

OptionsSpec == OptionsInit /\ [][OptionsNext]_vars

RoutingNext ==
    \/ Settle
    \/ TriggerEvent
    \/ HoverOpenTimerFires
    \/ HoverLeave
    \/ HoverEnter
    \/ HoverHideTimerFires
    \/ HideTimerFires
    \/ AddClickListenerTimerFires

RoutingSpec == RoutingInit /\ [][RoutingNext]_vars

\* The registry alone: the page of OptionsInit, and no gesture.
RegistryNext ==
    \/ Settle
    \/ UpdateOptionsCall
    \/ AddMenuConfigurationCall
    \/ UpdateMenuConfigurationCall
    \/ UpdateMenuCommandCall

RegistrySpec == OptionsInit /\ [][RegistryNext]_vars

ValidationNext ==
    \/ Settle
    \/ AddDeclaredConfigurationCall
    \/ UpdateOptionsCall

ValidationSpec == ValidationInit /\ [][ValidationNext]_vars

BindNext ==
    \/ Settle
    \/ BindMenuCall
    \/ UnbindMenuCall
    \/ OpenMenuCall
    \/ HideTimerFires
    \/ AddClickListenerTimerFires

BindSpec == BindInit /\ [][BindNext]_vars

----------------------------------------------------------------------------
(* What the specification says of a build, in its own terms *)

\* The type resolved for an element: its type attribute, "default" when unset.
ResolvedType(el) == IF elemType[el] = "" THEN "default" ELSE elemType[el]

IsTypeMatch(c, el) == "*" \in commands[c].targetTypes \/ ResolvedType(el) \in commands[c].targetTypes

\* The filter strategy of the root menu of an element: the menu's, else the instance's.
Strategy(el) ==
    LET own == menuConfigurations[elemMenu[el]].filterStrategy
    IN  IF own # "" THEN own ELSE globalFilterStrategy

ShouldRender(c, el) == commands[c].visible /\ (IsTypeMatch(c, el) \/ Strategy(el) = "disable")

ShouldDisable(c, el) == commands[c].disabled \/ ~IsTypeMatch(c, el)

RootCommands(el) == menuConfigurations[elemMenu[el]].commands

NothingToRender(el) == \A k \in DOMAIN RootCommands(el) : ~ShouldRender(RootCommands(el)[k], el)

RootsShown == {n \in NodeIds : nodes[n].kind = "root" /\ nodes[n].cls \in {"opening", "open"}}

----------------------------------------------------------------------------
(* Exclusivity *)

\* C1: at any moment at most one root menu node is in the Opening or Open
\* state, whatever gestures, openMenu/closeMenu calls, close events and timer
\* firings came before.
AtMostOneRootShown == Cardinality(RootsShown) <= 1

\* A second root node exists beside the one that is shown.
TwoRootsOneShown ==
    /\ Cardinality({n \in NodeIds : nodes[n].kind = "root" /\ nodes[n].attached}) = 2
    /\ Cardinality(RootsShown) = 1

\* A root open was requested while another root menu was active, and the new
\* root menu is Open.
OpenedOverActive == last.op = "open" /\ last.prev # 0 /\ last.cls = "open"

----------------------------------------------------------------------------
(* The build *)

Rendered(n, c) == \E i \in DOMAIN nodes[n].items : nodes[n].items[i].cmd = c

\* C3: for a non-separator command c built for a target of resolved type t (the
\* target's type attribute, "default" when unset) under filter strategy s, with
\* typeMatch meaning that c's target types hold "*" or t: c is rendered exactly
\* when it is visible and (typeMatch or s is "disable"), and a rendered c is
\* disabled exactly when its own disabled flag is set or typeMatch fails.
BuiltAsFiltered ==
    /\ \A n \in NodeIds :
          (nodes[n].kind = "root" /\ nodes[n].attached /\ nodes[n].cls \in {"open", "closing"}) =>
              LET el == nodes[n].target
              IN  \A k \in DOMAIN RootCommands(el) :
                    LET c == RootCommands(el)[k]
                    IN  commands[c].type # "separator" =>
                          /\ Rendered(n, c) <=> ShouldRender(c, el)
                          /\ \A i \in DOMAIN nodes[n].items :
                                nodes[n].items[i].cmd = c =>
                                    (nodes[n].items[i].disabled <=> ShouldDisable(c, el))
    /\ (last.op = "open" /\ activeMenuElement = 0) =>
          \A k \in DOMAIN RootCommands(last.el) :
              commands[RootCommands(last.el)[k]].type # "separator" =>
                  ~ShouldRender(RootCommands(last.el)[k], last.el)

\* An open root menu shows, disabled, a command whose own disabled flag is not
\* set: its target types miss the target's type and the strategy is "disable".
ForcedDisabledShown ==
    \E n \in NodeIds :
        /\ nodes[n].kind = "root" /\ nodes[n].cls = "open"
        /\ \E i \in DOMAIN nodes[n].items :
              /\ nodes[n].items[i].disabled
              /\ ~commands[nodes[n].items[i].cmd].disabled
              /\ elemType[nodes[n].target] = ""

\* C8: a root build that yields zero rendered items never reaches Open: after
\* the attempt no root menu is active, no current target is recorded, and the
\* node built for it is not attached to the document.
EmptyRootNeverOpens ==
    (last.op = "open" /\ NothingToRender(last.el)) =>
        /\ activeMenuElement = 0
        /\ currentTargetElement = NoElem
        /\ ~last.attached
        /\ last.cls # "open"
        /\ \A n \in NodeIds : nodes[n].attached => nodes[n].target # last.el

\* A root open was attempted for an element none of whose commands qualifies,
\* while another root menu was active.
EmptyRootAttempted == last.op = "open" /\ NothingToRender(last.el) /\ last.prev # 0

----------------------------------------------------------------------------
(* Activation *)

\* An item that is rendered enabled was clicked.
ActivatedEnabled == last.op = "click" /\ ~ShouldDisable(last.cmd, last.el)

\* What the action of a command resolves to: itself, or the callback registered
\* under its name.
Resolved(c) ==
    LET a == commands[c].action
    IN  IF a.t = "string" THEN registeredActions[a.v] ELSE a

\* C4: activating an enabled action item whose action resolves to a callback
\* calls that callback exactly once, with the element the menu was opened for
\* and the command, and the root menu then leaves Open for Closed.  (Stated
\* for callbacks that return; C5 is about those that throw.)
ActivationCallsOnceThenCloses ==
    (ActivatedEnabled /\ Resolved(last.cmd).t = "function" /\ ~CallbackThrows(Resolved(last.cmd).v)) =>
        /\ last.calls = << [fn |-> Resolved(last.cmd).v, target |-> last.el, command |-> last.cmd] >>
        /\ last.cls # "open"
        /\ activeMenuElement # 0 => nodes[activeMenuElement].cls # "open"

\* C5: when the callback of an activated item throws, the error is re-thrown
\* wrapped, and the menu is closed all the same.
ThrowingCallbackStillCloses ==
    (ActivatedEnabled /\ Resolved(last.cmd).t = "function" /\ CallbackThrows(Resolved(last.cmd).v)) =>
        /\ last.thrown = "ActionExecutionError"
        /\ last.cls # "open"

\* C6: activating an item whose string action names no registered callback
\* throws an error, calls no callback, and the menu is closed.
UnregisteredActionThrows ==
    (ActivatedEnabled /\ commands[last.cmd].action.t = "string" /\ Resolved(last.cmd).t # "function") =>
        /\ last.thrown # "none"
        /\ last.calls = << >>
        /\ last.cls # "open"

\* C7: every activation of an enabled action item, whether its callback
\* returns or throws, emits exactly one QuickCTXActionSelected on the element
\* the menu was opened for, carrying the menu id, the command, that element
\* and its resolved type.
EveryActivationNotifiesOnce ==
    ActivatedEnabled =>
        last.events = << [ on |-> last.el, menuId |-> elemMenu[last.el], commandId |-> last.cmd,
                           targetElement |-> last.el, targetType |-> ResolvedType(last.el) ] >>

----------------------------------------------------------------------------
(* Submenus *)

\* No command of the submenu of c can be rendered for el, whichever filter
\* strategy applies.
EmptySubmenu(c, el) ==
    \A k \in DOMAIN commands[c].subCommands :
        LET sub == commands[c].subCommands[k]
        IN  \/ ~commands[sub].visible
            \/ ~IsTypeMatch(sub, el) /\ Strategy(el) = "hide" /\ globalFilterStrategy = "hide"

\* C9: when opening a submenu yields zero rendered items, only that submenu
\* is aborted: the root menu stays open and recorded, and the arrow is taken
\* off the parent item.
EmptySubmenuAbortsAlone ==
    (last.op = "openSubmenu" /\ last.cmd \in Cmds /\ EmptySubmenu(last.cmd, last.el) /\ last.prevCls = "open") =>
        /\ activeMenuElement # 0
        /\ nodes[activeMenuElement].cls = "open"
        /\ currentTargetElement = last.el
        /\ \A i \in DOMAIN nodes[activeMenuElement].items :
              nodes[activeMenuElement].items[i].cmd = last.cmd => ~nodes[activeMenuElement].items[i].arrow

\* What a click on a disabled item must leave as it was.
MenuState == << nodes, activeMenuElement, currentTargetElement, activeSubmenus, timers,
                submenuElement, listeners >>

\* C10, as stated: a click on an item rendered disabled runs no action, emits
\* no notification, and leaves the root menu and the submenu stack exactly as
\* they were.
DisabledClickIsInert ==
    [][ (last'.op = "click" /\ ShouldDisable(last'.cmd, last'.el)) =>
            /\ last'.calls = << >>
            /\ last'.events = << >>
            /\ UNCHANGED MenuState ]_vars

\* C10, amended: a click on an item rendered disabled runs no action and emits
\* no notification; when the item belongs to the active root menu or to a
\* submenu of the stack, the root menu and the stack are left exactly as they
\* were.
DisabledClickInsideIsInert ==
    [][ (last'.op = "click" /\ ShouldDisable(last'.cmd, last'.el)) =>
            /\ last'.calls = << >>
            /\ last'.events = << >>
            /\ last'.thrown = "none"
            /\ last'.inside => UNCHANGED MenuState ]_vars

\* A disabled item of an open submenu of the stack was clicked.
DisabledClickedInSubmenu ==
    /\ last.op = "click" /\ ShouldDisable(last.cmd, last.el)
    /\ \E k \in DOMAIN activeSubmenus : activeSubmenus[k].element = last.node
    /\ last.cls = "open"

----------------------------------------------------------------------------
(* The submenu cascade *)

RECURSIVE AncestorsOrSelf(_)
\* A command and those reached from it through the parent back-references.
AncestorsOrSelf(c) == IF c = NoCmd THEN {} ELSE {c} \cup AncestorsOrSelf(parentCommand[c])

\* Submenus are open along a chain: every entry of the stack is a node that
\* is attached and Open.
ChainOpen ==
    /\ activeSubmenus # << >>
    /\ \A k \in DOMAIN activeSubmenus :
          nodes[activeSubmenus[k].element].attached /\ nodes[activeSubmenus[k].element].cls = "open"

\* C11: with submenus open along a chain, hovering an enabled item or a
\* separator closes exactly the open submenus whose parent command is neither
\* the hovered command nor an ancestor of it (through the parent
\* back-references), keeps the others as they are, and never closes the root
\* menu.
HoverClosesOnlyStrangers ==
    [][ (/\ last'.op = "enter"
         /\ ChainOpen
         /\ commands[last'.cmd].type = "separator" \/ ~ShouldDisable(last'.cmd, last'.el)) =>
            LET keep == AncestorsOrSelf(last'.cmd)
                Kept(info) == info.parentCommand \in keep
            IN  /\ activeSubmenus' = SelectSeq(activeSubmenus, Kept)
                /\ \A k \in DOMAIN activeSubmenus :
                      LET n == activeSubmenus[k].element
                      IN  IF Kept(activeSubmenus[k]) THEN nodes'[n] = nodes[n]
                          ELSE nodes'[n].attached /\ nodes'[n].cls = "closing"
                /\ activeMenuElement' = activeMenuElement
                /\ currentTargetElement' = currentTargetElement
                /\ activeMenuElement # 0 => nodes'[activeMenuElement] = nodes[activeMenuElement] ]_vars

\* An item of the first submenu of a chain of two was hovered: the second
\* submenu is closing, the first is still on the stack.
HoveredBesideInnerSubmenu ==
    /\ last.op = "enter"
    /\ Len(activeSubmenus) = 1
    /\ parentCommand[last.cmd] = activeSubmenus[1].parentCommand
    /\ nodes[activeSubmenus[1].element].cls = "open"
    /\ \E n \in NodeIds : nodes[n].kind = "sub" /\ nodes[n].attached /\ nodes[n].cls = "closing"

----------------------------------------------------------------------------
(* Closing *)

\* C12: Escape and a scroll of the page close the active menu instantly:
\* when the handler returns no root menu is active, the node of the menu is
\* detached and the submenu stack is empty, with no close timer to wait for.
EscapeAndScrollCloseInstantly ==
    (last.op \in {"escape", "scroll"} /\ last.prev # 0) =>
        /\ activeMenuElement = 0
        /\ ~last.attached
        /\ activeSubmenus = << >>
        /\ \A tm \in timers : tm.kind # "hide"

----------------------------------------------------------------------------
(* The programmatic interface *)

\* C13: openMenu returns true exactly when a root menu for the target is open
\* after the call, and false when the target is no element, carries no menu id
\* or names a menu that is not registered.
OpenMenuReturnsWhetherOpen ==
    (last.op \in {"open", "openMenu"} /\ last.ret \in {"true", "false"}) =>
        (last.ret = "true" <=>
            /\ activeMenuElement # 0
            /\ nodes[activeMenuElement].attached
            /\ nodes[activeMenuElement].cls = "open"
            /\ nodes[activeMenuElement].target = last.el)

----------------------------------------------------------------------------
(* Binding *)

\* C14 as stated: bindMenuToElements stamps the menu id; on an element without
\* a type stamp it stamps the given type, and on an element that was bound
\* before (and not unbound since) it leaves the type of the first bind;
\* unbindMenuFromElements removes both stamps.
RebindKeepsFirstType ==
    [][ /\ (last'.op = "bind" /\ last'.el \in Elems) =>
             /\ elemMenu'[last'.el] = last'.cmd
             /\ (elemMenu[last'.el] = NoMenu /\ last'.arg.t = "string") => elemType'[last'.el] = last'.arg.v
             /\ elemMenu[last'.el] # NoMenu => elemType'[last'.el] = elemType[last'.el]
        /\ (last'.op = "unbind" /\ last'.el \in Elems) =>
             elemMenu'[last'.el] = NoMenu /\ elemType'[last'.el] = "" ]_vars

\* C14, amended: bindMenuToElements stamps the menu id; a type stamp that is
\* not empty is never overwritten by it, while an absent or empty stamp (the one
\* a bind with the type "" leaves) is set to the given type; only
\* unbindMenuFromElements removes the stamps; neither touches the Active Menu State.
RebindKeepsNonEmptyType ==
    [][ /\ (last'.op = "bind" /\ last'.el \in Elems) =>
             /\ elemMenu'[last'.el] = last'.cmd
             /\ elemType[last'.el] # "" => elemType'[last'.el] = elemType[last'.el]
             /\ (elemType[last'.el] = "" /\ last'.arg.t = "string") => elemType'[last'.el] = last'.arg.v
             /\ UNCHANGED MenuState
        /\ (last'.op = "unbind" /\ last'.el \in Elems) =>
             /\ elemMenu'[last'.el] = NoMenu /\ elemType'[last'.el] = ""
             /\ UNCHANGED MenuState
        /\ last'.op \notin {"bind", "unbind"} => elemType' = elemType ]_vars

\* An element stamped with one type has just been bound again with another.
ReboundWithOtherType ==
    /\ last.op = "bind" /\ last.el = "e1"
    /\ last.arg.t = "string" /\ last.arg.v \in {"folder", "image"}
    /\ elemType["e1"] \in {"folder", "image"} \ {last.arg.v}

----------------------------------------------------------------------------
(* Commands *)

\* The commands of menu menuId, in depth-first pre-order, whose action equals
\* the action named: the string itself, or the name the callback is registered
\* under (none when it has no such name).
Matching(menuId, actionRef) ==
    LET name == IF actionRef.t = "function" THEN functionActionMap[actionRef.v] ELSE actionRef.v
        tree == IF menuId \in DOMAIN menuConfigurations THEN Walk(commands, menuConfigurations[menuId].commands) ELSE <<>>
    IN  IF name = "" THEN <<>> ELSE SelectSeq(tree, LAMBDA c : commands[c].action = JsStr(name))

\* C15: updateMenuCommand returns true exactly when a command of the menu's
\* tree has the action named; then the first such command in depth-first
\* pre-order takes the given fields and nothing else changes; when it returns
\* false no command changes.
UpdateModifiesFirstMatch ==
    [][ last'.op = "updateMenuCommand" =>
          LET found == Matching(last'.cmd, last'.arg)
          IN  /\ last'.ret = "true" <=> found # <<>>
              /\ commands' = IF found = <<>> THEN commands
                             ELSE [commands EXCEPT ![found[1]] = Assign(@, last'.events[1])] ]_vars

\* The commands of the trees of all menus
Created == UNION {{Walk(commands, menuConfigurations[m].commands)[i] : i \in DOMAIN Walk(commands, menuConfigurations[m].commands)} : m \in DOMAIN menuConfigurations}

\* The names an action is registered under with callback f
NamesOf(f) == {n \in DOMAIN registeredActions : registeredActions[n] = JsFn(f)}

\* C16: after any createAndBindMenu calls, a callback given as inline action
\* has exactly one entry in the registered actions, under a generated name, and
\* every command of any menu that was given the callback carries that name.
OneNamePerCallback ==
    \A f \in Fns :
        LET given == {c \in Created : DeclaredCommands[c].action = JsFn(f)}
        IN  (given # {} \/ functionActionMap[f] # "") =>
                /\ Cardinality(NamesOf(f)) = 1
                /\ NamesOf(f) \subseteq GenNames
                /\ functionActionMap[f] \in NamesOf(f)
                /\ \A c \in given : commands[c].action = JsStr(functionActionMap[f])

\* Two menus created by two calls hold commands that were given the same callback.
CallbackSharedAcrossMenus ==
    /\ DOMAIN menuConfigurations = {"m1", "m2"}
    /\ {"cEdit", "cOnly", "cBoom"} \subseteq Created
    /\ commands["cEdit"].action = commands["cOnly"].action
    /\ commands["cEdit"].action.t = "string"
    /\ commands["cBoom"].action # commands["cOnly"].action

\* The list is in ascending order.
Ascending(list) == \A i, j \in DOMAIN list : i < j => commands[list[i]].order <= commands[list[j]].order

\* The stored list holds the commands declared, those of equal order as declared.
StableOf(list, declared) ==
    /\ Len(list) = Len(declared)
    /\ \A i, j \in DOMAIN declared :
           (i < j /\ commands[declared[i]].order <= commands[declared[j]].order) =>
               \E k, l \in DOMAIN list : k < l /\ list[k] = declared[i] /\ list[l] = declared[j]

\* C20: after registration the root list of a menu and the child list of every
\* sublist in it are each in ascending order, commands of equal order as declared.
ListsSortedByOrder ==
    /\ \A m \in DOMAIN menuConfigurations :
           /\ Ascending(menuConfigurations[m].commands)
           /\ \E declared \in Structures(m) : StableOf(menuConfigurations[m].commands, declared)
    /\ \A c \in Created :
           /\ Ascending(commands[c].subCommands)
           /\ StableOf(commands[c].subCommands, DeclaredCommands[c].subCommands)

----------------------------------------------------------------------------
(* Options and overrides *)

\* The gesture a document event stands for, and the events of a gesture.
GestureOf(ev) == IF ev = "mouseover" THEN "hover" ELSE ev
Primitive(gesture) == IF gesture = "hover" THEN {"mouseover", "mouseout"} ELSE IF gesture = "" THEN {} ELSE {gesture}

\* An event of type ev on el is listened to and makes the dispatcher open
\* (or, for hover, schedule) the menu of el.
OpensOn(ev, el) == ev \in triggerListeners /\ TriggerDecision(State, ev, el) \in {"open", "schedule"}

\* C17: m1, registered without a trigger override and bound to e1, opens on
\* the gesture that is the default trigger at the moment, and on no other
\* (a hover menu is not opened again over the element it is open for).
AbsentTriggerFollowsDefault ==
    currentTargetElement # "e1" =>
        \A ev \in {"contextmenu", "dblclick", "mouseover"} : OpensOn(ev, "e1") <=> GestureOf(ev) = defaultTrigger

\* C18: the events the trigger handler listens to on the document are exactly
\* those of the default trigger and of each configuration's trigger, hover
\* standing for mouseover and mouseout.
ListenersFollowGestures ==
    triggerListeners = Primitive(defaultTrigger) \cup UNION {Primitive(menuConfigurations[m].triggerEvent) : m \in DOMAIN menuConfigurations}

\* C19 as stated: registering an id again replaces the command list and keeps
\* a close override of the earlier registration that the new one does not give.
ReregistrationMergesOverrides ==
    [][ (last'.op = "addMenuConfiguration" /\ last'.cmd \in DOMAIN menuConfigurations) =>
          LET earlier == menuConfigurations[last'.cmd]
              given == last'.calls[1]
              stored == menuConfigurations'[last'.cmd]
          IN  /\ stored.commands = SortByOrder(commands, given.commands)
              /\ stored.closeTriggerEvent = IF given.closeTriggerEvent # "" THEN given.closeTriggerEvent ELSE earlier.closeTriggerEvent ]_vars

\* C19, amended: registering an id again replaces the whole configuration:
\* the command list, and every override, which is the one given or else the
\* default of the moment, whatever the earlier registration had set.
ReregistrationReplacesOverrides ==
    [][ (last'.op = "addMenuConfiguration" /\ last'.cmd \in DOMAIN menuConfigurations) =>
          LET given == last'.calls[1]
              stored == menuConfigurations'[last'.cmd]
          IN  /\ stored.commands = SortByOrder(commands, given.commands)
              /\ stored.triggerEvent = IF given.triggerEvent # "" THEN given.triggerEvent ELSE defaultTrigger
              /\ stored.closeTriggerEvent = IF given.closeTriggerEvent # "" THEN given.closeTriggerEvent ELSE DefaultCloseTrigger
              /\ stored.filterStrategy = IF given.filterStrategy # "" THEN given.filterStrategy ELSE globalFilterStrategy ]_vars

\* A menu that had a close and a trigger override has been registered again without them.
ReregisteredWithoutOverride ==
    /\ last.op = "addMenuConfiguration" /\ last.events # <<>>
    /\ last.events[1].closeTriggerEvent = "mouseout" /\ last.events[1].triggerEvent = "hover"
    /\ last.calls[1].closeTriggerEvent = "" /\ last.calls[1].triggerEvent = ""
    /\ last.events[1].commands # menuConfigurations[last.cmd].commands
    /\ defaultTrigger # "hover"

----------------------------------------------------------------------------
(* Errors *)

\* The elements bound to a menu id that no configuration is registered for.
Unrouted == {el \in Elems : elemMenu[el] \notin {NoMenu, ""} /\ elemMenu[el] \notin DOMAIN menuConfigurations}

UnknownIdIsNoOp ==
    [][ (last'.op \in {"updateMenuConfiguration", "updateMenuCommand"} /\ last'.cmd \notin DOMAIN menuConfigurations) =>
          /\ last'.thrown = "none"
          /\ last'.ret = IF last'.op = "updateMenuCommand" THEN "false" ELSE "none"
          /\ UNCHANGED <<menuConfigurations, commands, triggerListeners, registeredActions, functionActionMap,
                         defaultTrigger, globalFilterStrategy, elemMenu, elemType, MenuState>> ]_vars

\* updateMenuConfiguration was called for m2 while only m1 was registered,
\* under a default trigger changed since.
UpdatedUnknownId ==
    /\ last.op = "updateMenuConfiguration" /\ last.cmd = "m2"
    /\ DOMAIN menuConfigurations = {"m1"}
    /\ defaultTrigger = "dblclick"

\* The commands of the list and those below them.
Declared(list) == {Walk(UnlabelledCommands, list)[i] : i \in DOMAIN Walk(UnlabelledCommands, list)}

\* C23: a registration whose structure holds an action or a sublist declared
\* without a label throws and registers nothing; one whose commands all have
\* a label, separators apart, registers its configuration.
UnlabelledCommandIsRefused ==
    [][ last'.op = "addMenuConfiguration" =>
          IF \E c \in Declared(last'.calls[1].commands) : UnlabelledCommands[c].type # "separator" /\ UnlabelledCommands[c].label = ""
          THEN last'.thrown = "Error" /\ UNCHANGED menuConfigurations
          ELSE last'.thrown = "none" /\ last'.cmd \in DOMAIN menuConfigurations'
                 /\ menuConfigurations'[last'.cmd].commands = last'.calls[1].commands ]_vars

----------------------------------------------------------------------------
(* Closing by a click outside *)

\* C24: while the outside-click listener is registered and a root is active,
\* a click inside the root node or inside a submenu node of the stack changes
\* nothing, and a click anywhere else closes the menu: the stack is emptied,
\* its submenus and the root are closing, and the root's hide timer is pending.
OutsideClickClosesAll ==
    [][ (last'.op = "clickElsewhere" /\ last'.prev # 0) =>
          IF last'.inside THEN UNCHANGED MenuState
          ELSE /\ activeSubmenus' = <<>>
               /\ activeMenuElement' # 0
               /\ nodes'[activeMenuElement'].cls = "closing"
               /\ Timer("hide", activeMenuElement') \in timers'
               /\ \A n \in NodeIds : nodes'[n].kind = "sub" => nodes'[n].cls \in {"closing", "none"} ]_vars

\* A click outside closed a root that had a submenu open.
ClickedOutsideWithSubmenu ==
    /\ last.op = "clickElsewhere" /\ ~last.inside /\ last.prev # 0
    /\ activeMenuElement # 0 /\ nodes[activeMenuElement].cls = "closing"
    /\ \E n \in NodeIds : nodes[n].kind = "sub" /\ nodes[n].attached /\ nodes[n].cls = "closing"

----------------------------------------------------------------------------
(* Touches *)

\* C25: a hold timer that fires belongs to the touch still followed, which has
\* neither ended nor moved beyond the slop, and opens the menu of that touch's
\* element at that touch's start point; a touch-end or a move beyond the slop
\* leaves no hold timer pending; the touch-end that follows a hold that fired
\* opens nothing and changes no menu.
HoldOpensUnlessEndedOrMoved ==
    [][ /\ last'.op = "hold" =>
              /\ last'.ret = "own" /\ last'.thrown = "none"
              /\ last'.attached /\ last'.cls = "open"
              /\ currentTargetElement' = touchState.targetElement
              /\ last'.arg = JsPoint(touchState.startCoords)
        /\ (last'.op = "touchend" \/ (last'.op = "touchmove" /\ last'.ret = "far")) =>
              {tm \in timers' : tm.kind = "hold"} = {}
        /\ (last'.op = "touchend" /\ last'.ret = "held") =>
              UNCHANGED <<nodes, activeMenuElement, currentTargetElement, activeSubmenus>> ]_vars

\* C26: a move beyond the slop ends the following of the touch, so that no
\* touch-end opens a menu for it; and a touch-end opens a menu, at the start
\* point of the touch, only for a touch shorter than the tap threshold.
TapOpensOnlyShortStillTouch ==
    [][ /\ (last'.op = "touchmove" /\ last'.ret = "far") => ~touchState'.live /\ "touchend" \notin listeners'
        /\ (last'.op = "touchend" /\ last'.node # 0) =>
              /\ touchState.elapsed < TapThreshold
              /\ last'.arg = JsPoint(touchState.startCoords) ]_vars

\* C29: no two hold timers are pending at once.
OneHoldTimerPending == Cardinality({tm \in timers : tm.kind = "hold"}) <= 1

----------------------------------------------------------------------------
(* Abandoned hovers *)

\* C28: when the pointer enters an item, no submenu-open timer of another
\* item stays pending, so that a submenu is opened by its timer only for the
\* item the pointer entered last.
AbandonedHoverOpensNothing ==
    [][ /\ last'.op = "enter" => \A c \in Cmds \ {last'.cmd} : openTimeout'[c] = NoElem
        /\ last'.op = "openSubmenu" => \A c \in Cmds \ {last'.cmd} : openTimeout[c] = NoElem ]_vars

----------------------------------------------------------------------------
(* Closed *)

\* C30: while no root menu is active, the outside-click, Escape-keydown and
\* scroll listeners are not registered, and no hover close listener is left
\* on an element or on a menu node.
ClosedHasNoCloseListeners ==
    activeMenuElement = 0 =>
        /\ listeners \cap {"click", "keydown", "scroll"} = {}
        /\ hoverListeners = {}
        /\ \A n \in NodeIds : ~nodes[n].hov

----------------------------------------------------------------------------
(* Timers that outlive what they were set for *)

\* C31: the hover-close timer closes the root it was scheduled for only: when
\* a root menu has been opened, no hover-close timer scheduled before the
\* opening is pending any more.
HoverCloseSparesNewerRoot ==
    [][ (last'.op = "open" /\ last'.attached) => ~hoverHideTimeout' ]_vars

\* C32: a submenu stack that is not empty implies an active root menu, and
\* while no root menu is active no submenu node is attached, but for a node
\* whose removal at the end of its closing animation is still due (the browser
\* runs that timer before the root's, which was set after it).
NoSubmenuOutlivesRoot ==
    /\ activeSubmenus # <<>> => activeMenuElement # 0
    /\ activeMenuElement = 0 =>
          \A n \in NodeIds : (nodes[n].kind = "sub" /\ nodes[n].attached) =>
              Timer("subclose", n) \in timers \/ Timer("subsingle", n) \in timers

\* C33: the node of every entry of the submenu stack is attached to the
\* document.
StackedSubmenusAreAttached ==
    \A i \in DOMAIN activeSubmenus : nodes[activeSubmenus[i].element].attached

----------------------------------------------------------------------------
(* The stack as a chain *)

\* The commands a sublist command holds.
ChildrenOf(c) == {commands[c].subCommands[k] : k \in DOMAIN commands[c].subCommands}

\* The commands of the menu that is open on the current target.
RootLevel ==
    IF currentTargetElement \in Elems /\ elemMenu[currentTargetElement] \in DOMAIN menuConfigurations
    THEN {menuConfigurations[elemMenu[currentTargetElement]].commands[k] :
              k \in DOMAIN menuConfigurations[elemMenu[currentTargetElement]].commands}
    ELSE {}

\* C34: the open submenus form one chain, outer to inner: the parent command
\* of the first entry is a command of the root menu, the parent command of
\* every later entry is a child of the parent command of the entry before it,
\* and no command has two entries.
StackIsOneChain ==
    /\ \A i \in DOMAIN activeSubmenus :
          IF i = 1 THEN activeSubmenus[i].parentCommand \in RootLevel
          ELSE activeSubmenus[i].parentCommand \in ChildrenOf(activeSubmenus[i - 1].parentCommand)
    /\ \A i, j \in DOMAIN activeSubmenus : i # j => activeSubmenus[i].parentCommand # activeSubmenus[j].parentCommand

----------------------------------------------------------------------------
(* A root menu that is fading out *)

\* C35: a click on an item of a root node that is not the active menu (it is
\* in its closing animation since a newer root menu was opened) calls its
\* callback with the element that node was built for, never with another,
\* and leaves the newer menu open.
ClosingRootItemKeepsItsTarget ==
    (last.op = "click" /\ last.prev # 0 /\ ~last.inside /\ last.prevCls = "open") =>
        /\ \A k \in DOMAIN last.calls : last.calls[k].target = last.el
        /\ activeMenuElement # 0 /\ nodes[activeMenuElement].cls = "open"

\* C36: a root node in its closing animation that is attached has its removal
\* timer pending; when that timer fires the node is detached, whether or not
\* another root menu was opened meanwhile; if the node was still the active
\* menu, activeMenuElement and currentTargetElement are both reset, and if it
\* was not, both are left as they are.
ClosingRootReachesClosed ==
    [][ /\ \A n \in NodeIds : (nodes'[n].kind = "root" /\ nodes'[n].attached /\ nodes'[n].cls = "closing") =>
              Timer("hide", n) \in timers'
        /\ last'.op = "hideTimer" =>
              /\ ~last'.attached
              /\ IF last'.inside
                 THEN activeMenuElement' = 0 /\ currentTargetElement' = NoElem
                 ELSE /\ currentTargetElement' = currentTargetElement
                      /\ activeMenuElement' = 0 <=> activeMenuElement = 0 ]_vars

\* The removal timer of a root fired while a newer root menu was Open.
ClosedBesideNewerRoot ==
    /\ last.op = "hideTimer" /\ ~last.inside /\ ~last.attached
    /\ activeMenuElement # 0 /\ nodes[activeMenuElement].cls = "open"

----------------------------------------------------------------------------
(* Filtering *)

\* C37: when a root menu has been opened, every visible separator of its
\* configuration is among the items of the built menu, whatever the target's
\* type, the filter strategy and the separator's own target types.
SeparatorsAreAlwaysRendered ==
    (last.op = "open" /\ last.attached) =>
        \A k \in DOMAIN RootCommands(last.el) :
            LET c == RootCommands(last.el)[k]
            IN  (commands[c].type = "separator" /\ commands[c].visible) =>
                    activeMenuElement # 0 /\ c \in ItemCmds(nodes[activeMenuElement].items)

\* What an item shows of the filter: its command and whether it is disabled.
Shown(items) == [i \in DOMAIN items |-> [cmd |-> items[i].cmd, disabled |-> items[i].disabled]]

\* C38: when a submenu has been opened, its items are those its commands
\* would give at root level: filtered with the root menu's effective strategy
\* (the menu's own, else the instance's) and the target's resolved type, so
\* that under a 'disable' override a non-matching command is there, disabled.
SubmenuFilteredAsRoot ==
    (last.op = "openSubmenu" /\ activeMenuElement # 0 /\ submenuElement[last.cmd] # 0) =>
        LET sub == submenuElement[last.cmd]
        IN  (nodes[sub].attached /\ nodes[sub].cls = "open") =>
                Shown(nodes[sub].items) =
                    Shown(BuildItems(State, commands[last.cmd].subCommands, Strategy(last.el), ResolvedType(last.el)))

----------------------------------------------------------------------------
(* The pointer inside a submenu of a menu that closes on mouseout *)

\* C39: when the pointer has come onto an item of an attached submenu, no
\* hover-close timer is pending: the pointer has not left the menu, so the
\* timer, which nothing would cancel while the pointer stays there, does not
\* close the menu.
PointerInSubmenuKeepsMenu ==
    (last.op = "enter" /\ last.node # 0 /\ nodes[last.node].kind = "sub" /\ nodes[last.node].attached) =>
        ~hoverHideTimeout

----------------------------------------------------------------------------
(* Overlap strategies *)

\* The bound element nearest to the target of a path: the target itself if
\* bound, else its nearest bound ancestor; "page" if there is none.
NearestBound(path) ==
    LET bound == {i \in DOMAIN path : path[i] \in Elems /\ elemMenu[path[i]] # NoMenu}
    IN  IF bound = {} THEN "page" ELSE path[CHOOSE i \in bound : \A j \in bound : i <= j]

----------------------------------------------------------------------------
(* Position *)

\* C27, as stated: a root menu that would pass the right edge is put at
\* docWidth - width - 10, one that would pass the bottom edge at docHeight -
\* height - 10; left and top are never below 10; and a menu that is at least
\* 20 smaller than the viewport on both axes lies wholly inside it.
OverflowingMenuIsPulledBack ==
    last.op = "show" =>
        LET c == last.calls
        IN  /\ c.x + c.width > c.docWidth => c.left = c.docWidth - c.width - EdgeMargin
            /\ c.y + c.height > c.docHeight => c.top = c.docHeight - c.height - EdgeMargin
            /\ c.left >= EdgeMargin /\ c.top >= EdgeMargin
            /\ (c.width <= c.docWidth - 2 * EdgeMargin /\ c.height <= c.docHeight - 2 * EdgeMargin) =>
                  /\ 0 <= c.left /\ c.left + c.width <= c.docWidth
                  /\ 0 <= c.top /\ c.top + c.height <= c.docHeight

\* C27, amended: a root menu that would pass the right edge is put at
\* docWidth - width - 10 when it is at least 20 narrower than the viewport,
\* and at 10 when it is not; likewise for the bottom edge; left and top are
\* never below 10; and a menu at least 20 smaller than the viewport on both
\* axes lies wholly inside it.
FittingMenuIsPulledBack ==
    last.op = "show" =>
        LET c == last.calls
        IN  /\ c.x + c.width > c.docWidth =>
                  c.left = IF c.width <= c.docWidth - 2 * EdgeMargin THEN c.docWidth - c.width - EdgeMargin ELSE EdgeMargin
            /\ c.y + c.height > c.docHeight =>
                  c.top = IF c.height <= c.docHeight - 2 * EdgeMargin THEN c.docHeight - c.height - EdgeMargin ELSE EdgeMargin
            /\ c.left >= EdgeMargin /\ c.top >= EdgeMargin
            /\ (c.width <= c.docWidth - 2 * EdgeMargin /\ c.height <= c.docHeight - 2 * EdgeMargin) =>
                  /\ 0 <= c.left /\ c.left + c.width <= c.docWidth
                  /\ 0 <= c.top /\ c.top + c.height <= c.docHeight

\* A menu that fits was asked for beyond the right edge and was pulled back
\* to 10 from it.
PulledBackFromRightEdge ==
    /\ last.op = "show" /\ last.attached /\ last.cls = "open"
    /\ last.calls.x + last.calls.width > last.calls.docWidth
    /\ last.calls.width <= last.calls.docWidth - 2 * EdgeMargin
    /\ last.calls.left + last.calls.width = last.calls.docWidth - EdgeMargin

====
